---- MODULE Spec2Model ----
(***************************************************************************)
(* Model of the sly agent runtime core: the overlay filesystem             *)
(* (src/safety/overlay.rs, src/core/fs.rs), the QoS event loop and         *)
(* directive interpreter (src/core/loop.rs, interpreter.rs, bus.rs) and    *)
(* the session step (src/core/agent.rs, session.rs, store_graph.rs).       *)
(***************************************************************************)
EXTENDS Integers, Sequences, FiniteSets, TLC

VARIABLES
    files,       \* physical filesystem: normalized absolute path -> content
    dirs,        \* physical filesystem: set of existing directories
    last,        \* the last overlay operation and its result
    lastWrite,   \* relative path -> content of the last accepted overlay write
    hist,        \* what has happened to the overlay since it was created
    ops,         \* number of overlay operations issued through the API
    priority,    \* the priority lane: impulses sent and not yet received
    background,  \* the background lane
    closed,      \* the lanes all of whose senders have been dropped
    sent,        \* number of impulses sent so far
    pc,          \* where cortex_loop stands
    selected_at, \* the number of impulses sent when the selection began
    impulse,     \* the impulse taken by the last selection, with its lane
    directives,  \* the directives of that impulse still to be interpreted
    should_shutdown,
    directive,   \* the directive being interpreted
    result,      \* the result of the last dispatch
    event_log,   \* the event_log relation, in insertion order
    sessions,    \* the sessions and session_messages relations
    llm_calls,   \* per session: how often the LLM was invoked for it
    ok_steps,    \* per session: how many LLM invocations returned a response
    sync_log,    \* the sync_log relation: path -> content hash
    nodes,       \* the nodes relation: id -> node
    skills,      \* the skills relation: the names registered
    call,        \* the function applied outside the loop: its argument and result
    mcp_clients, \* state.mcp_clients: the names of the registered tool servers
    locks,       \* the holder of each tokio mutex of the tool subsystem
    pipes,       \* per tool server: the child process and its stdin and stdout pipes
    tasks,       \* per task using the tool clients: where it stands
    supervisor,  \* the Supervisor: where its loop stands, its executor, last_event_ts, batch
    clock,       \* Utc::now().timestamp_millis()
    event_rows,  \* the rows of event_log as the supervisor reads them: id and timestamp
    outbox,      \* the files of .sly/outbox: fact -> what the file holds
    writers,     \* per fact: where the fact command that queues it stands
    forwarded,   \* per item: how often the supervisor has pushed it to a batch
    announced    \* the auto-healing notification is out and no executor was started since

fsvars == <<files, dirs, last, lastWrite, hist, ops>>

\* the tool subsystem (src/mcp)
mcpvars == <<mcp_clients, locks, pipes, tasks>>

\* the supervisor (src/core/supervisor.rs) and what it watches
supvars == <<supervisor, clock, event_rows, outbox, writers, forwarded, announced>>

loopvars == <<priority, background, closed, sent, pc, selected_at, impulse,
              directives, should_shutdown, directive, result, event_log, sessions,
              llm_calls, ok_steps, sync_log, nodes, skills, call, mcpvars, supvars>>

(***************************************************************************)
(* Paths.  A physical path is a sequence of components below the root; a   *)
(* user path is [abs, comps].  ".." is kept as a component, as PathBuf     *)
(* keeps it: neither starts_with, strip_prefix nor join normalise it away. *)
(***************************************************************************)
UP == ".."

None == "<none>"

base_dir == <<"w">>

temp_dir == <<"tmp">>

overlay_id == "tx"

overlay_dir == temp_dir \o <<"sly_overlays">> \o <<overlay_id>>

IsPrefix(p, q) == Len(p) <= Len(q) /\ SubSeq(q, 1, Len(p)) = p

StripPrefix(p, q) == SubSeq(q, Len(p) + 1, Len(q))

Parent(p) == IF p = <<>> THEN <<>> ELSE SubSeq(p, 1, Len(p) - 1)

Join(dir, rel) == dir \o rel

(***************************************************************************)
(* Operating-system behaviour the code relies on (std::fs on Unix).        *)
(***************************************************************************)
\* One step of path resolution from directory cur.
StepInto(cur, c) == IF c = UP THEN Parent(cur) ELSE Append(cur, c)

\* Resolution of a path by the kernel: every component but the last has to
\* lead to an existing directory.
RECURSIVE Walk(_, _, _)
Walk(cur, rest, D) ==
    IF rest = <<>> THEN [ok |-> TRUE, path |-> cur]
    ELSE LET nxt == StepInto(cur, Head(rest)) IN
         IF Len(rest) = 1 THEN [ok |-> TRUE, path |-> nxt]
         ELSE IF nxt \in D THEN Walk(nxt, Tail(rest), D)
         ELSE [ok |-> FALSE, path |-> <<>>]

Resolve(p, D) == Walk(<<>>, p, D)

PathExists(p, F, D) ==
    LET r == Resolve(p, D) IN r.ok /\ (r.path \in D \/ r.path \in DOMAIN F)

PathIsDir(p, D) == LET r == Resolve(p, D) IN r.ok /\ r.path \in D

PathIsFile(p, F, D) == LET r == Resolve(p, D) IN r.ok /\ r.path \in DOMAIN F

\* fs::create_dir_all: walks the components, creating what is missing; a
\* regular file on the way is an error and what was created so far stays.
RECURSIVE MkdirWalk(_, _, _, _)
MkdirWalk(cur, rest, F, D) ==
    IF rest = <<>> THEN [ok |-> TRUE, dirs |-> D]
    ELSE LET nxt == StepInto(cur, Head(rest)) IN
         IF nxt \in DOMAIN F THEN [ok |-> FALSE, dirs |-> D]
         ELSE MkdirWalk(nxt, Tail(rest), F, D \cup {nxt})

CreateDirAll(p, F, D) == MkdirWalk(<<>>, p, F, D)

\* fs::write: create or truncate the file the path resolves to.  slash is
\* TRUE when the path ends in a separator (a join with an empty path).
FsWrite(p, slash, c, F, D) ==
    LET r == Resolve(p, D) IN
    IF /\ r.ok
       /\ ~slash
       /\ p # <<>>
       /\ p[Len(p)] # UP
       /\ r.path \notin D
       /\ Parent(r.path) \in D
    THEN [ok |-> TRUE, target |-> r.path,
          files |-> [q \in DOMAIN F \cup {r.path} |->
                        IF q = r.path THEN c ELSE F[q]]]
    ELSE [ok |-> FALSE, target |-> <<>>, files |-> F]

\* fs::read_to_string
FsRead(p, F, D) ==
    LET r == Resolve(p, D) IN
    IF r.ok /\ r.path \in DOMAIN F
    THEN [ok |-> TRUE, val |-> F[r.path]]
    ELSE [ok |-> FALSE, val |-> None]

\* fs::remove_dir_all / fs::remove_file on a resolved location
RemoveTree(t, F, D) ==
    [files |-> [q \in {q \in DOMAIN F : ~IsPrefix(t, q)} |-> F[q]],
     dirs  |-> {d \in D : ~IsPrefix(t, d)}]

(***************************************************************************)
(* OverlayFS (src/safety/overlay.rs)                                       *)
(***************************************************************************)
\* Faulty variant: an absolute path outside base_dir is treated as a relative one.
get_relative_path_lax(path) ==
    [ok |-> TRUE,
     rel |-> IF path.abs /\ IsPrefix(base_dir, path.comps)
             THEN StripPrefix(base_dir, path.comps) ELSE path.comps]

get_relative_path(path) ==
    IF path.abs
    THEN IF IsPrefix(base_dir, path.comps)
         THEN [ok |-> TRUE, rel |-> StripPrefix(base_dir, path.comps)]
         ELSE [ok |-> FALSE, rel |-> <<>>]
    ELSE [ok |-> TRUE, rel |-> path.comps]

read_file(path, F, D) ==
    LET rp == get_relative_path(path) IN
    IF ~rp.ok THEN [ok |-> FALSE, val |-> None, err |-> "outside"]
    ELSE LET overlay_path == Join(overlay_dir, rp.rel)
             base_path    == Join(base_dir, rp.rel) IN
         IF PathExists(overlay_path, F, D)
         THEN LET r == FsRead(overlay_path, F, D) IN
              [ok |-> r.ok, val |-> r.val, err |-> IF r.ok THEN None ELSE "io"]
         ELSE IF PathExists(base_path, F, D)
         THEN LET r == FsRead(base_path, F, D) IN
              [ok |-> r.ok, val |-> r.val, err |-> IF r.ok THEN None ELSE "io"]
         ELSE [ok |-> FALSE, val |-> None, err |-> "notfound"]

\* create the parent directories of overlay_path, then write the file
WriteAt(overlay_path, slash, c, F, D) ==
    LET mk == CreateDirAll(Parent(overlay_path), F, D) IN
    IF ~mk.ok
    THEN [ok |-> FALSE, err |-> "io", target |-> <<>>, files |-> F, dirs |-> mk.dirs]
    ELSE LET w == FsWrite(overlay_path, slash, c, F, mk.dirs) IN
         [ok |-> w.ok, err |-> IF w.ok THEN None ELSE "io",
          target |-> w.target, files |-> w.files, dirs |-> mk.dirs]

write_file(path, c, F, D) ==
    LET rp == get_relative_path(path) IN
    IF ~rp.ok
    THEN [ok |-> FALSE, err |-> "outside", target |-> <<>>, files |-> F, dirs |-> D]
    ELSE WriteAt(Join(overlay_dir, rp.rel), rp.rel = <<>>, c, F, D)

\* the entries of directory dir, as names
Entries(dir, F, D) ==
    {q[Len(q)] : q \in {q \in DOMAIN F \cup D : q # <<>> /\ Parent(q) = dir}}

\* the entries of a directory in the order read_dir yields them; the order
\* is the platform's, given here by ord, a sequence holding every name
InOrder(S, ord) == SelectSeq(ord, LAMBDA n : n \in S)

\* fs::copy of one regular file
FsCopy(src, dst, F, D) ==
    IF src \in DOMAIN F /\ Parent(dst) \in D /\ dst \notin D
    THEN [ok |-> TRUE, files |-> [q \in DOMAIN F \cup {dst} |->
                                     IF q = dst THEN F[src] ELSE F[q]], dirs |-> D]
    ELSE [ok |-> FALSE, files |-> F, dirs |-> D]

RECURSIVE copy_dir_recursive(_, _, _, _, _)
RECURSIVE CopyEntries(_, _, _, _, _, _)
CopyEntries(es, src, dst, F, D, ord) ==
    IF es = <<>> THEN [ok |-> TRUE, files |-> F, dirs |-> D]
    ELSE LET src_path == Append(src, Head(es))
             dst_path == Append(dst, Head(es))
             r == IF src_path \in D
                  THEN copy_dir_recursive(src_path, dst_path, F, D, ord)
                  ELSE FsCopy(src_path, dst_path, F, D) IN
         IF r.ok THEN CopyEntries(Tail(es), src, dst, r.files, r.dirs, ord) ELSE r

copy_dir_recursive(src, dst, F, D, ord) ==
    LET mk == IF dst \notin D /\ dst \notin DOMAIN F
              THEN CreateDirAll(dst, F, D)
              ELSE [ok |-> TRUE, dirs |-> D] IN
    IF ~mk.ok THEN [ok |-> FALSE, files |-> F, dirs |-> mk.dirs]
    ELSE IF src \notin mk.dirs THEN [ok |-> FALSE, files |-> F, dirs |-> mk.dirs]
    ELSE CopyEntries(InOrder(Entries(src, F, mk.dirs), ord), src, dst, F, mk.dirs, ord)

\* Faulty variant: the result of the copy is dropped and Ok(()) returned.
commit_reports_ok(F, D, ord) ==
    [copy_dir_recursive(overlay_dir, base_dir, F, D, ord) EXCEPT !.ok = TRUE]

commit(F, D, ord) == copy_dir_recursive(overlay_dir, base_dir, F, D, ord)

rollback(F, D) ==
    IF PathExists(overlay_dir, F, D)
    THEN LET r == RemoveTree(overlay_dir, F, D) IN
         [ok |-> TRUE, files |-> r.files, dirs |-> r.dirs]
    ELSE [ok |-> TRUE, files |-> F, dirs |-> D]

(***************************************************************************)
(* FileSystemAction (src/core/fs.rs)                                       *)
(***************************************************************************)
map_to_overlay(path) ==
    IF path.abs /\ ~IsPrefix(base_dir, path.comps)
    THEN [ok |-> FALSE, path |-> <<>>, slash |-> FALSE]
    ELSE LET rel_path == IF path.abs THEN StripPrefix(base_dir, path.comps)
                         ELSE path.comps IN
         [ok |-> TRUE, path |-> Join(overlay_dir, rel_path), slash |-> rel_path = <<>>]

execute_write(path, c, F, D) ==
    LET m == map_to_overlay(path) IN
    IF ~m.ok
    THEN [ok |-> FALSE, err |-> "outside", target |-> <<>>, files |-> F, dirs |-> D]
    ELSE WriteAt(m.path, m.slash, c, F, D)

execute_delete(path, F, D) ==
    LET m == map_to_overlay(path) IN
    IF ~m.ok
    THEN [ok |-> FALSE, err |-> "outside", target |-> <<>>, files |-> F, dirs |-> D]
    ELSE IF PathExists(m.path, F, D)
    THEN LET t == Resolve(m.path, D).path
             r == RemoveTree(t, F, D) IN
         [ok |-> TRUE, err |-> None, target |-> t, files |-> r.files, dirs |-> r.dirs]
    ELSE [ok |-> TRUE, err |-> None, target |-> <<>>, files |-> F, dirs |-> D]

(***************************************************************************)
(* Action parser (src/core/parser.rs).  A response is a sequence of        *)
(* lexical pieces [j, acts]: j = "T" prose, "FJ" the fence "```json", "F"  *)
(* the fence "```", "BAD" text that starts like JSON and does not          *)
(* deserialize, "obj" the JSON text of the one action acts[1], "arr" the   *)
(* JSON text of the array of actions acts.                                 *)
(***************************************************************************)
Piece(j) == [j |-> j, acts |-> <<>>]

T == Piece("T")

F3 == Piece("F")

FJ == Piece("FJ")

BAD == Piece("BAD")

IsJson(t) == t.j \in {"obj", "arr"}

\* str::find: index of the first piece at or after position from in which
\* the pattern pat ("FJ" for "```json", "F" for "```") occurs, 0 when there
\* is none; "```" also occurs in "```json"
RECURSIVE Find(_, _, _)
Find(resp, from, pat) ==
    IF from > Len(resp) THEN 0
    ELSE IF resp[from].j = "FJ" \/ (pat = "F" /\ resp[from].j = "F") THEN from
    ELSE Find(resp, from + 1, pat)

\* serde_json::from_str::<Vec<AgentAction>> of the pieces between two fences
AsVec(content) ==
    IF Len(content) = 1 /\ IsJson(content[1]) /\ content[1].j = "arr"
    THEN [ok |-> TRUE, acts |-> content[1].acts]
    ELSE [ok |-> FALSE, acts |-> <<>>]

\* serde_json::from_str::<AgentAction>
AsOne(content) ==
    IF Len(content) = 1 /\ IsJson(content[1]) /\ content[1].j = "obj"
    THEN [ok |-> TRUE, acts |-> content[1].acts]
    ELSE [ok |-> FALSE, acts |-> <<>>]

Between(resp, i, j) == SubSeq(resp, i + 1, j - 1)

\* A. the ```json blocks
RECURSIVE ScanJson(_, _, _)
ScanJson(resp, start_idx, actions) ==
    LET start == Find(resp, start_idx, "FJ") IN
    IF start = 0 THEN actions
    ELSE LET end == Find(resp, start + 1, "F") IN
         IF end = 0 THEN actions
         ELSE LET json_str == Between(resp, start, end)
                  acts == IF AsVec(json_str).ok THEN AsVec(json_str).acts
                          ELSE AsOne(json_str).acts IN
              ScanJson(resp, end + 1, actions \o acts)

\* B. the generic ``` blocks
RECURSIVE ScanGeneric(_, _, _)
ScanGeneric(resp, start_idx, actions) ==
    LET start == Find(resp, start_idx, "F") IN
    IF start = 0 THEN actions
    ELSE IF resp[start].j = "FJ" THEN ScanGeneric(resp, start + 1, actions)
    ELSE LET end == Find(resp, start + 1, "F") IN
         IF end = 0 THEN actions
         ELSE LET content == Between(resp, start, end)
                  acts == IF AsOne(content).ok THEN AsOne(content).acts
                          ELSE AsVec(content).acts IN
              ScanGeneric(resp, end + 1, actions \o acts)

Answer(text) == [directive |-> "Answer", text |-> text]

parse_action(response) ==
    LET a == ScanJson(response, 1, <<>>)
        b == IF a = <<>> THEN ScanGeneric(response, 1, <<>>) ELSE a IN
    IF b # <<>> THEN [ok |-> TRUE, actions |-> b]
    ELSE IF response # <<>> /\ response[1].j \in {"obj", "arr", "BAD"}
              /\ AsOne(response).ok
         THEN [ok |-> TRUE, actions |-> AsOne(response).acts]
    ELSE IF response # <<>> /\ response[1].j \in {"obj", "arr", "BAD"}
              /\ AsVec(response).ok
         THEN [ok |-> TRUE, actions |-> AsVec(response).acts]
    ELSE [ok |-> TRUE, actions |-> <<Answer(response)>>]

(***************************************************************************)
(* AgentSession (src/core/session.rs) and its persistence                  *)
(* (src/memory/store_graph.rs)                                             *)
(***************************************************************************)
\* default of SlyConfig; the configured cap of steps per session
max_autonomous_loops == 2

AgentSession_new(id, initial_prompt) ==
    [id |-> id, messages |-> <<initial_prompt>>, depth |-> 0, status |-> <<"Idle">>]

\* Faulty variant: the message is put in front of the others.
with_message_in_front(session, msg) ==
    [session EXCEPT !.messages = <<msg>> \o @]

with_message(session, msg) ==
    [session EXCEPT !.messages = Append(@, msg)]

\* Faulty variant: the depth is left as it is.
with_depth_increment_none(session) == session

with_depth_increment(session) ==
    [session EXCEPT !.depth = @ + 1]

\* Faulty variant: the status is left as it is.
with_status_kept(session, status) == session

with_status(session, status) ==
    [session EXCEPT !.status = status]

\* A status is the name of its variant followed, for Error, by the
\* characters of its text; a character is "a" (a letter), "dq" (a double
\* quote), "bs" (a backslash), "lp" or "rp" (a parenthesis).
SessionStatus_Error(text) == <<"Error">> \o text

\* <str as Debug>::fmt: a double quote and a backslash get a backslash
RECURSIVE escape_debug(_)
escape_debug(text) ==
    IF text = <<>> THEN <<>>
    ELSE (IF Head(text) \in {"dq", "bs"} THEN <<"bs", Head(text)>> ELSE <<Head(text)>>)
             \o escape_debug(Tail(text))

\* format!("{:?}", status): the name, and for Error the quoted text in
\* parentheses
StatusToStored(status) ==
    IF status[1] = "Error"
    THEN <<"Error", "lp", "dq">> \o escape_debug(Tail(status)) \o <<"dq", "rp">>
    ELSE status

\* str::replace(pat, ""): every occurrence of pat, from the left, is removed
RECURSIVE Remove(_, _)
Remove(str, pat) ==
    IF Len(str) < Len(pat) THEN str
    ELSE IF SubSeq(str, 1, Len(pat)) = pat
    THEN Remove(SubSeq(str, Len(pat) + 1, Len(str)), pat)
    ELSE <<Head(str)>> \o Remove(Tail(str), pat)

\* the match of get_session on the stored text
StatusFromStored(str) ==
    CASE str = <<"Thinking">> -> <<"Thinking">>
      [] str = <<"AwaitingObservation">> -> <<"AwaitingObservation">>
      [] str = <<"Completed">> -> <<"Completed">>
      [] str # <<>> /\ str[1] = "Error" ->
           SessionStatus_Error(Remove(Remove(str, <<"Error", "lp", "dq">>), <<"dq", "rp">>))
      [] OTHER -> <<"Idle">>

\* :put session_messages, one row per index; rows are never removed
PutMessages(old, new) ==
    [i \in 1..(IF Len(old) > Len(new) THEN Len(old) ELSE Len(new)) |->
        IF i <= Len(new) THEN new[i] ELSE old[i]]

create_session(S, session) ==
    [q \in DOMAIN S \cup {session.id} |->
        IF q = session.id
        THEN [status |-> StatusToStored(session.status), depth |-> session.depth,
              input |-> session.messages[1],
              messages |-> PutMessages(IF q \in DOMAIN S THEN S[q].messages ELSE <<>>,
                                       session.messages)]
        ELSE S[q]]

\* the rule of update_session binds the stored row: an id that has no row
\* puts no session row, the message rows are put all the same
update_session(S, session) ==
    IF session.id \in DOMAIN S
    THEN [S EXCEPT ![session.id] =
              [status |-> StatusToStored(session.status), depth |-> session.depth,
               input |-> @.input,
               messages |-> PutMessages(@.messages, session.messages)]]
    ELSE S

get_session(S, id) ==
    IF id \in DOMAIN S
    THEN [found |-> TRUE,
          session |-> [id |-> id, messages |-> S[id].messages,
                       depth |-> S[id].depth,
                       status |-> StatusFromStored(S[id].status)]]
    ELSE [found |-> FALSE, session |-> AgentSession_new(id, None)]

(***************************************************************************)
(* Session step (src/core/agent.rs)                                        *)
(***************************************************************************)
Msg(k, v, step) == [k |-> k, v |-> v, step |-> step]

\* the order read_dir yields entries in when an action of a step commits
NameUniverse == {"a.txt", "d"}

handle_action(action, session, F, D, env) ==
    CASE action.directive = "CallTool" ->
           [session |-> with_message(session,
                            Msg("obs", IF env.tool_ok THEN "tool" ELSE "tool_error", 0)),
            files |-> F, dirs |-> D]
      [] action.directive = "WriteFile" ->
           LET r == execute_write(action.path, action.content, F, D) IN
           [session |-> with_message(session,
                            Msg("obs", IF r.ok THEN "write" ELSE "write_error", 0)),
            files |-> r.files, dirs |-> r.dirs]
      [] action.directive = "ExecShell" ->
           [session |-> with_message(session,
                            Msg("obs", IF env.shell_ok THEN "shell" ELSE "shell_error", 0)),
            files |-> F, dirs |-> D]
      [] action.directive = "QueryMemory" ->
           [session |-> with_message(session, Msg("obs", "not_implemented", 0)),
            files |-> F, dirs |-> D]
      [] action.directive = "CommitOverlay" ->
           LET r == commit(F, D, env.ord) IN
           [session |-> IF r.ok
                        THEN with_status(with_message(session, Msg("obs", "commit", 0)),
                                         <<"Completed">>)
                        ELSE with_message(session, Msg("obs", "commit_error", 0)),
            files |-> r.files, dirs |-> r.dirs]
      [] action.directive = "Answer" ->
           [session |-> with_status(session, <<"Completed">>), files |-> F, dirs |-> D]
      [] OTHER -> [session |-> session, files |-> F, dirs |-> D]

\* for action in actions { session = handle_action(action, session, ..) }
RECURSIVE RunActions(_, _, _, _, _)
RunActions(actions, session, F, D, env) ==
    IF actions = <<>> THEN [session |-> session, files |-> F, dirs |-> D]
    ELSE LET r == handle_action(Head(actions), session, F, D, env) IN
         RunActions(Tail(actions), r.session, r.files, r.dirs, env)

\* Faulty variant: a session is refused only once it is past the cap.
DepthReachedLate(session, max_loops) == session.depth > max_loops

\* agent.rs: if session.depth >= max_loops { return; }
DepthReached(session, max_loops) == session.depth >= max_loops

\* Faulty variant: a failed LLM call counts as a step.
cortex_error_advances(S, session, F, D) ==
    [sessions |-> update_session(S, with_depth_increment(session)),
     files |-> F, dirs |-> D, llm |-> "err"]

\* Err(e) of cortex.generate: the error is printed and nothing is stored
cortex_error(S, session, F, D) ==
    [sessions |-> S, files |-> F, dirs |-> D, llm |-> "err"]

\* the result of a step: the stored sessions, the filesystem, and whether
\* the LLM was invoked ("none", "err", "ok")
step_agent_session(session_id, S, F, D, max_loops, env) ==
    LET g == get_session(S, session_id) IN
    IF ~g.found THEN [sessions |-> S, files |-> F, dirs |-> D, llm |-> "none"]
    ELSE IF DepthReached(g.session, max_loops)
    THEN [sessions |-> S, files |-> F, dirs |-> D, llm |-> "none"]
    ELSE IF ~env.llm.ok
    THEN cortex_error(S, g.session, F, D)
    ELSE LET step_depth == g.session.depth
             s1 == with_depth_increment(
                       with_message(g.session, Msg("sly", env.llm.name, step_depth)))
             parsed == parse_action(env.llm.body)
             Persist(r) == [sessions |-> update_session(S, r.session),
                            files |-> r.files, dirs |-> r.dirs, llm |-> "ok"] IN
         Persist(IF parsed.ok
                 THEN RunActions(parsed.actions, s1, F, D, env)
                 ELSE [session |-> with_status(s1, SessionStatus_Error(<<"a">>)), files |-> F, dirs |-> D])

(***************************************************************************)
(* Ingestion (src/knowledge/mod.rs, scanner.rs, extractor.rs) and the      *)
(* node and sync relations (src/memory/store_graph.rs)                     *)
(***************************************************************************)
\* Path::extension of the file names of the model
Extension(name) ==
    IF name \in {"a.txt", "b.txt", "x.txt"} THEN "txt"
    ELSE IF name \in {"m.rs", "n.rs"} THEN "rs"
    ELSE IF name \in {"r.md", "s.md"} THEN "md" ELSE ""

\* SHA-256 of the content, hex encoded
Hash(content) == <<"sha256", content>>

\* the process runs in base_dir: a relative path is resolved against it
Physical(path) == IF path.abs THEN path.comps ELSE Join(base_dir, path.comps)

scan_file(path, F, D) ==
    LET ph == Physical(path) IN
    IF ~PathIsFile(ph, F, D) THEN [some |-> FALSE]
    ELSE LET extension == Extension(ph[Len(ph)]) IN
         IF extension \notin {"rs", "js", "ts", "py", "md", "txt"}
         THEN [some |-> FALSE]
         ELSE LET content == FsRead(ph, F, D).val IN
              [some |-> TRUE, path |-> path, content |-> content,
               hash |-> Hash(content), extension |-> extension]

\* Faulty variant: the recorded hash is not looked at.
should_reindex_always(SL, file) == TRUE

should_reindex(SL, file) ==
    ~(file.path \in DOMAIN SL /\ SL[file.path] = file.hash)

\* PathBuf::to_str: the components, after the root when the path is absolute
path_str(path) == (IF path.abs THEN <<"/">> ELSE <<>>) \o path.comps

\* A source text of a .rs or .md file is the sequence of its items: a Rust
\* item (fn, struct, enum, trait; vis is "pub" or ""), a Markdown heading
\* (h1), a line that is neither (text), or text syn cannot parse (broken).
Item(kind, name, vis) == [kind |-> kind, name |-> name, vis |-> vis]

GraphNode(id, content, node_type, file) ==
    [id |-> id, content |-> content, node_type |-> node_type, path |-> file.path]

\* format!("{}:{}", kind, name), or with the scope between them
generate_id(current_scope, name, kind) ==
    IF current_scope = <<>> THEN <<kind, name>> ELSE <<kind>> \o current_scope \o <<name>>

\* syn::parse_file and RustVisitor over the items of the file, in their order
parse_rust(content) ==
    IF \E i \in DOMAIN content : content[i].kind = "broken"
    THEN [ok |-> FALSE, nodes |-> <<>>]
    ELSE LET items == SelectSeq(content,
                 LAMBDA it : it.kind \in {"fn", "struct", "enum", "trait"}) IN
         [ok |-> TRUE,
          nodes |-> [i \in DOMAIN items |->
                        [id |-> generate_id(<<>>, items[i].name, items[i].kind),
                         content |-> items[i], kind |-> items[i].kind]]]

\* to_lowercase().replace(" ", "_") on the headings of the model
Slug(name) ==
    CASE name = "Intro" -> "intro"
      [] name = "Set Up" -> "set_up"
      [] OTHER -> name

extract_regex(file) ==
    CASE file.extension = "rs" ->
           LET fns == SelectSeq(file.content,
                          LAMBDA it : it.kind = "fn" /\ it.vis = "pub")
               structs == SelectSeq(file.content,
                          LAMBDA it : it.kind = "struct" /\ it.vis = "pub") IN
           [i \in DOMAIN fns |->
               GraphNode(<<"fn", fns[i].name>>, <<"Function definition", fns[i]>>,
                         "fn", file)]
           \o [i \in DOMAIN structs |->
               GraphNode(<<"struct", structs[i].name>>,
                         <<"Struct definition", structs[i]>>, "struct", file)]
      [] file.extension = "md" ->
           LET hs == SelectSeq(file.content, LAMBDA it : it.kind = "h1") IN
           [i \in DOMAIN hs |->
               GraphNode(<<"doc", Slug(hs[i].name)>>, hs[i], "markdown_heading", file)]
      [] OTHER ->
           <<GraphNode(<<"file">> \o path_str(file.path), file.content, "file", file)>>

extract_symbols(file) ==
    IF file.extension = "rs"
    THEN LET parsed == parse_rust(file.content) IN
         IF parsed.ok
         THEN [i \in DOMAIN parsed.nodes |->
                  GraphNode(parsed.nodes[i].id, parsed.nodes[i].content,
                            parsed.nodes[i].kind, file)]
         ELSE extract_regex(file)
    ELSE extract_regex(file)

Event(op, data) == [op |-> op, data |-> data]

batch_add_nodes(N, ns, embed_ok) ==
    IF ns = <<>> THEN [ok |-> TRUE, nodes |-> N, events |-> <<>>]
    ELSE IF ~embed_ok THEN [ok |-> FALSE, nodes |-> N, events |-> <<>>]
    ELSE LET ids == {ns[i].id : i \in DOMAIN ns}
             row(id) == CHOOSE n \in {ns[i] : i \in DOMAIN ns} :
                            n.id = id /\ \A j \in DOMAIN ns :
                                ns[j].id = id => \E k \in j..Len(ns) : ns[k] = n IN
         [ok |-> TRUE,
          nodes |-> [id \in DOMAIN N \cup ids |-> IF id \in ids THEN row(id) ELSE N[id]],
          events |-> <<Event(<<"batch_add_nodes">>,
                             [count |-> Len(ns),
                              paths |-> [i \in DOMAIN ns |-> ns[i].path]])>>]

update_sync_status(SL, path, hash) ==
    [q \in DOMAIN SL \cup {path} |-> IF q = path THEN hash ELSE SL[q]]

\* Faulty variant: the hash is recorded whether or not the nodes were written.
commit_nodes_sync_always(N, SL, ns, file, embed_ok) ==
    LET w == IF ns # <<>> THEN batch_add_nodes(N, ns, embed_ok)
             ELSE [ok |-> TRUE, nodes |-> N, events |-> <<>>] IN
    [ok |-> w.ok, nodes |-> w.nodes,
     sync_log |-> update_sync_status(SL, file.path, file.hash),
     events |-> w.events]

commit_nodes(N, SL, ns, file, embed_ok) ==
    LET w == IF ns # <<>> THEN batch_add_nodes(N, ns, embed_ok)
             ELSE [ok |-> TRUE, nodes |-> N, events |-> <<>>] IN
    IF ~w.ok THEN [ok |-> FALSE, nodes |-> N, sync_log |-> SL, events |-> <<>>]
    ELSE [ok |-> TRUE, nodes |-> w.nodes,
          sync_log |-> update_sync_status(SL, file.path, file.hash),
          events |-> w.events]

\* for (nodes, file) in all_nodes_and_files { commit_nodes(..).await?; }
\* embed_ok[k] is what the embedding engine does for the k-th changed file;
\* it answers for the files beyond the end of embed_ok
RECURSIVE CommitAll(_, _, _, _, _)
CommitAll(cands, N, SL, evs, embed_ok) ==
    IF cands = <<>> THEN [ok |-> TRUE, nodes |-> N, sync_log |-> SL, events |-> evs]
    ELSE LET r == commit_nodes(N, SL, extract_symbols(Head(cands)), Head(cands),
                               embed_ok = <<>> \/ Head(embed_ok)) IN
         IF ~r.ok THEN [ok |-> FALSE, nodes |-> r.nodes, sync_log |-> r.sync_log,
                        events |-> evs \o r.events]
         ELSE CommitAll(Tail(cands), r.nodes, r.sync_log, evs \o r.events,
                        IF embed_ok = <<>> THEN <<>> ELSE Tail(embed_ok))

RECURSIVE ScanAll(_, _, _)
ScanAll(paths, F, D) ==
    IF paths = <<>> THEN <<>>
    ELSE LET f == scan_file(Head(paths), F, D) IN
         (IF f.some THEN <<f>> ELSE <<>>) \o ScanAll(Tail(paths), F, D)

ingest_batch(paths, N, SL, F, D, embed_ok) ==
    IF paths = <<>> THEN [ok |-> TRUE, nodes |-> N, sync_log |-> SL, events |-> <<>>]
    ELSE LET scanned == ScanAll(paths, F, D)
             candidates == SelectSeq(scanned, LAMBDA f : should_reindex(SL, f)) IN
         IF candidates = <<>>
         THEN [ok |-> TRUE, nodes |-> N, sync_log |-> SL, events |-> <<>>]
         ELSE CommitAll(candidates, N, SL, <<>>, embed_ok)

\* the names ensure_skills_loaded registers
CoreSkills == {"sly_sum", "sly_max", "sly_min", "sly_mul", "sly_parity"}

(***************************************************************************)
(* The overlay driven directly through its API.                            *)
(***************************************************************************)
Rel(c) == [abs |-> FALSE, comps |-> c]

Abs(c) == [abs |-> TRUE, comps |-> c]

\* the user paths the operations are tried on
Paths ==
    { Rel(<<"a.txt">>),                      \* shadows a base file
      Rel(<<"d", "b.txt">>),                 \* nested, shadows a base file
      Rel(<<"d">>),                          \* a file where base has a directory
      Abs(<<"w", "a.txt">>),                 \* absolute, inside base_dir
      Abs(<<"etc", "a.txt">>),               \* absolute, outside base_dir
      Rel(<<UP, "x.txt">>),                  \* leaves the overlay directory
      Rel(<<UP, UP, UP, "w", "a.txt">>),     \* reaches the base file
      Abs(<<"w", UP, "x.txt">>) }            \* inside base_dir by prefix only

Contents == {"v2", "v3"}

\* number of operations issued on one overlay
MaxOps == 3

InitFiles ==
    (<<"w", "a.txt">> :> "v1") @@ (<<"w", "d", "b.txt">> :> "v1")

InitDirs ==
    { <<>>, <<"w">>, <<"w", "d">>, <<"tmp">>, <<"tmp", "sly_overlays">>, overlay_dir }

\* the files below base_dir, by physical path
BaseView(F) == [q \in {q \in DOMAIN F : IsPrefix(base_dir, q)} |-> F[q]]

\* the files below overlay_dir, by path relative to overlay_dir
OverlayRels(F) ==
    {StripPrefix(overlay_dir, q) : q \in {q \in DOMAIN F : IsPrefix(overlay_dir, q)}}

\* every order in which read_dir may yield the names of S
Orders(S) ==
    {o \in [1..Cardinality(S) -> S] : \A i, j \in DOMAIN o : i # j => o[i] # o[j]}

\* the names found anywhere below overlay_dir
OverlayNames(F, D) ==
    {q[Len(q)] : q \in {q \in DOMAIN F \cup D :
                          IsPrefix(overlay_dir, q) /\ q # overlay_dir}}

Op(op, path, r) ==
    [op |-> op, path |-> path, ok |-> r.ok, err |-> r.err, val |-> r.val,
     target |-> r.target]

NoteWrite(path, c, r) ==
    IF r.ok
    THEN LET rel == IF path.abs THEN StripPrefix(base_dir, path.comps) ELSE path.comps IN
         [q \in DOMAIN lastWrite \cup {rel} |-> IF q = rel THEN c ELSE lastWrite[q]]
    ELSE lastWrite

FsInit ==
    /\ files = InitFiles
    /\ dirs = InitDirs
    /\ last = [op |-> "new", path |-> Rel(<<>>), ok |-> TRUE, err |-> None,
               val |-> None, target |-> <<>>]
    /\ lastWrite = <<>>
    /\ hist = [committed |-> FALSE, deleted |-> FALSE, rolledback |-> FALSE]
    /\ ops = 0

Tick == ops < MaxOps /\ ops' = ops + 1

DoReadFile(path) ==
    LET r == read_file(path, files, dirs) IN
    /\ last' = Op("read", path, [r EXCEPT !.val = r.val] @@ [target |-> <<>>])
    /\ UNCHANGED <<files, dirs, lastWrite, hist>>

DoWriteFile(path, c) ==
    LET r == write_file(path, c, files, dirs) IN
    /\ files' = r.files
    /\ dirs' = r.dirs
    /\ last' = Op("write", path, r @@ [val |-> c])
    /\ lastWrite' = NoteWrite(path, c, r)
    /\ UNCHANGED hist

DoExecWrite(path, c) ==
    LET r == execute_write(path, c, files, dirs) IN
    /\ files' = r.files
    /\ dirs' = r.dirs
    /\ last' = Op("exec_write", path, r @@ [val |-> c])
    /\ lastWrite' = NoteWrite(path, c, r)
    /\ UNCHANGED hist

DoExecDelete(path) ==
    LET r == execute_delete(path, files, dirs) IN
    /\ files' = r.files
    /\ dirs' = r.dirs
    /\ last' = Op("delete", path, r @@ [val |-> None])
    /\ hist' = [hist EXCEPT !.deleted = @ \/ r.ok]
    /\ UNCHANGED lastWrite

DoCommit ==
    \E ord \in Orders(OverlayNames(files, dirs)) :
        LET r == commit(files, dirs, ord) IN
        /\ files' = r.files
        /\ dirs' = r.dirs
        /\ last' = Op("commit", Rel(<<>>),
                      r @@ [err |-> IF r.ok THEN None ELSE "io", val |-> None,
                            target |-> <<>>])
        /\ hist' = [hist EXCEPT !.committed = TRUE]
        /\ UNCHANGED lastWrite

DoRollback ==
    LET r == rollback(files, dirs) IN
    /\ files' = r.files
    /\ dirs' = r.dirs
    /\ last' = Op("rollback", Rel(<<>>),
                  r @@ [err |-> None, val |-> None, target |-> <<>>])
    /\ hist' = [hist EXCEPT !.rolledback = TRUE]
    /\ UNCHANGED lastWrite

ReadFile == \E path \in Paths : Tick /\ DoReadFile(path) /\ UNCHANGED loopvars

WriteFile ==
    \E path \in Paths, c \in Contents : Tick /\ DoWriteFile(path, c) /\ UNCHANGED loopvars

ExecWrite ==
    \E path \in Paths, c \in Contents : Tick /\ DoExecWrite(path, c) /\ UNCHANGED loopvars

ExecDelete == \E path \in Paths : Tick /\ DoExecDelete(path) /\ UNCHANGED loopvars

Commit == Tick /\ DoCommit /\ UNCHANGED loopvars

Rollback == Tick /\ DoRollback /\ UNCHANGED loopvars

FsNext ==
    \/ ReadFile
    \/ WriteFile
    \/ ExecWrite
    \/ ExecDelete
    \/ Commit
    \/ Rollback


(***************************************************************************)
(* Event loop (src/core/loop.rs), interpreter (src/core/interpreter.rs)    *)
(* and bus (src/core/bus.rs)                                               *)
(***************************************************************************)
\* mpsc::channel(100) and mpsc::channel(1000) in main
PriorityCapacity == 100

BackgroundCapacity == 1000

\* impulses sent to the loop in one run
MaxImpulses == 2

\* impulses sent to the loop in one run that drives sessions only
MaxSessionImpulses == 3

\* sessions initiated in one run
MaxSessions == 1

Lanes == {"FAST", "SLOW"}

SessionIds == 1..MaxSessions

Impulse(kind, sid, text, paths) ==
    [kind |-> kind, sid |-> sid, text |-> text, paths |-> paths, seq |-> 0]

\* the impulses producers send: user and session impulses and the interrupt
\* go to the priority lane, watcher and bootstrap events to the background
PriorityImpulses ==
    {Impulse("InitiateSession", 0, "p", <<>>),
     Impulse("SystemInterrupt", 0, None, <<>>)}
    \cup {Impulse("ThinkStep", sid, None, <<>>) : sid \in SessionIds}
    \cup {Impulse("Observation", sid, "o", <<>>) : sid \in SessionIds}

BackgroundImpulses ==
    {Impulse("FileSystemEvent", 0, None, <<Rel(<<"a.txt">>)>>),
     Impulse("SwarmSignal", 0, "idle", <<>>),
     Impulse("BootstrapSkills", 0, None, <<>>),
     Impulse("JanitorWakeup", 0, None, <<>>),
     Impulse("Error", 0, "e", <<>>)}

\* the impulses that drive sessions
SessionImpulses ==
    {Impulse("InitiateSession", 0, "p", <<>>)}
    \cup {Impulse("ThinkStep", sid, None, <<>>) : sid \in SessionIds}
    \cup {Impulse("Observation", sid, "o", <<>>) : sid \in SessionIds}

Directive_new(type_name, payload) == [type_name |-> type_name, payload |-> payload]

Payload(sid, text, paths) == [session_id |-> sid, text |-> text, paths |-> paths]

route_impulse(imp) ==
    CASE imp.kind = "InitiateSession" ->
           <<Directive_new("initiate_session", Payload(0, imp.text, <<>>))>>
      [] imp.kind = "ThinkStep" ->
           <<Directive_new("think", Payload(imp.sid, None, <<>>))>>
      [] imp.kind = "Observation" ->
           <<Directive_new("observe", Payload(imp.sid, imp.text, <<>>))>>
      [] imp.kind = "FileSystemEvent" ->
           <<Directive_new("fs_batch", Payload(0, None, imp.paths))>>
      [] imp.kind = "SwarmSignal" -> <<>>
      [] imp.kind = "BootstrapSkills" ->
           <<Directive_new("bootstrap_skills", Payload(0, None, <<>>))>>
      [] imp.kind = "JanitorWakeup" ->
           <<Directive_new("maintenance", Payload(0, None, <<>>))>>
      [] imp.kind = "SystemInterrupt" ->
           <<Directive_new("shutdown", Payload(0, None, <<>>))>>
      [] imp.kind = "Error" ->
           <<Directive_new("error", Payload(0, imp.text, <<>>))>>

\* the handlers register_core_handlers leaves on the bus
register_core_handlers ==
    {"initiate_session", "think", "observe", "ingest_file", "fs_batch",
     "bootstrap_skills", "shutdown"}

\* JSON text of actions, as the pieces of a response
Obj(a) == [j |-> "obj", acts |-> <<a>>]

Arr(as) == [j |-> "arr", acts |-> as]

WriteFileAction(path, content) ==
    [directive |-> "WriteFile", path |-> path, content |-> content]

Plain(tag) == [directive |-> tag]

\* the responses the LLM gives
Responses ==
    { [name |-> "hello", body |-> <<T>>],
      [name |-> "write", body |->
          <<T, FJ, Obj(WriteFileAction(Rel(<<"a.txt">>), "v2")), F3>>],
      [name |-> "multi", body |->
          <<FJ, Arr(<<WriteFileAction(Rel(<<"d">>), "v2"), Plain("CallTool"),
                      Plain("QueryDatalog")>>), F3, T>>],
      [name |-> "commit", body |-> <<FJ, Obj(Plain("CommitOverlay")), F3>>] }

Outcome(r) == [ok |-> TRUE, name |-> r.name, body |-> r.body]

LLMError == [ok |-> FALSE, name |-> None, body |-> <<>>]

LLMOutcomes == {LLMError} \cup {Outcome(r) : r \in Responses}

\* what the environment of one handler run does: the LLM, the tool server,
\* the shell, the embedding engine and the order of read_dir
Env(llm, tool_ok, embed_ok, ord) ==
    [llm |-> llm, tool_ok |-> tool_ok, shell_ok |-> TRUE, embed_ok |-> embed_ok,
     ord |-> ord]

\* the tool server answers or fails when the response calls a tool, read_dir
\* takes either order when the response commits
FirstOrder == CHOOSE ord \in Orders(NameUniverse) : TRUE

SessionEnvs ==
    {e \in {Env(llm, tool_ok, <<>>, ord) :
               llm \in LLMOutcomes, tool_ok \in BOOLEAN, ord \in Orders(NameUniverse)} :
        /\ e.llm.name # "multi" => e.tool_ok
        /\ e.llm.name # "commit" => e.ord = FirstOrder}

LoopEnvs ==
    {Env(llm, TRUE, <<embed_ok>>, <<"a.txt", "d">>) :
        llm \in {LLMError} \cup {Outcome(r) : r \in {r \in Responses : r.name = "hello"}},
        embed_ok \in BOOLEAN}

\* Uuid::new_v4: an id no session has
NewId(S) == Cardinality(DOMAIN S) + 1

Unchanged(S, F, D, N, SL, SK) ==
    [ok |-> TRUE, err |-> None, sessions |-> S, files |-> F, dirs |-> D,
     nodes |-> N, sync_log |-> SL, skills |-> SK, events |-> <<>>,
     llm |-> "none", sid |-> 0]

Stepped(base, session_id, r) ==
    [base EXCEPT !.sessions = r.sessions, !.files = r.files, !.dirs = r.dirs,
                 !.llm = r.llm, !.sid = session_id]

InitiateSessionHandler(data, S, F, D, N, SL, SK, env) ==
    LET session == AgentSession_new(NewId(S), Msg("text", data.text, 0))
        S1 == create_session(S, session) IN
    Stepped(Unchanged(S, F, D, N, SL, SK), session.id,
            step_agent_session(session.id, S1, F, D, max_autonomous_loops, env))

ThinkHandler(data, S, F, D, N, SL, SK, env) ==
    Stepped(Unchanged(S, F, D, N, SL, SK), data.session_id,
            step_agent_session(data.session_id, S, F, D, max_autonomous_loops, env))

\* Faulty variant: the session is stepped without the observation.
ObserveHandlerUnrecorded(data, S, F, D, N, SL, SK, env) ==
    ThinkHandler(data, S, F, D, N, SL, SK, env)

ObserveHandler(data, S, F, D, N, SL, SK, env) ==
    LET g == get_session(S, data.session_id) IN
    IF g.found
    THEN LET session == with_message(g.session, Msg("text", data.text, 0))
             S1 == update_session(S, session) IN
         Stepped(Unchanged(S, F, D, N, SL, SK), data.session_id,
                 step_agent_session(data.session_id, S1, F, D, max_autonomous_loops, env))
    ELSE Unchanged(S, F, D, N, SL, SK)

FsBatchHandler(data, S, F, D, N, SL, SK, env) ==
    IF data.paths # <<>>
    THEN LET r == ingest_batch(data.paths, N, SL, F, D, env.embed_ok) IN
         [Unchanged(S, F, D, N, SL, SK) EXCEPT
             !.ok = r.ok, !.err = IF r.ok THEN None ELSE "embedding",
             !.nodes = r.nodes, !.sync_log = r.sync_log, !.events = r.events]
    ELSE Unchanged(S, F, D, N, SL, SK)

BootstrapSkillsHandler(data, S, F, D, N, SL, SK, env) ==
    [Unchanged(S, F, D, N, SL, SK) EXCEPT !.skills = SK \cup CoreSkills]

ShutdownHandler(data, S, F, D, N, SL, SK, env) == Unchanged(S, F, D, N, SL, SK)

\* DirectiveBus::dispatch
dispatch(name, data, S, F, D, N, SL, SK, env) ==
    IF name \in register_core_handlers
    THEN CASE name = "initiate_session" -> InitiateSessionHandler(data, S, F, D, N, SL, SK, env)
           [] name = "think" -> ThinkHandler(data, S, F, D, N, SL, SK, env)
           [] name = "observe" -> ObserveHandler(data, S, F, D, N, SL, SK, env)
           [] name = "fs_batch" -> FsBatchHandler(data, S, F, D, N, SL, SK, env)
           [] name = "bootstrap_skills" -> BootstrapSkillsHandler(data, S, F, D, N, SL, SK, env)
           [] OTHER -> ShutdownHandler(data, S, F, D, N, SL, SK, env)
    ELSE [Unchanged(S, F, D, N, SL, SK) EXCEPT !.ok = FALSE, !.err = "no handler"]

(***************************************************************************)
(* Tool servers: the stdio transport, the JSON-RPC client and the registry *)
(* (src/mcp/transport.rs, client.rs, registry.rs)                          *)
(***************************************************************************)
\* config.mcp_servers
Servers == {"s1", "s2"}

\* the tasks that use the tool clients once startup is over
Callers == {"t1", "t2"}

\* main runs the startup; the callers run step_agent_session
Tasks == {"main"} \cup Callers

\* the notifications a tool server writes without having been asked
MaxNotifications == 1

\* JsonRpcRequest { method, id }; from is the task whose call wrote it
JsonRpcRequest(method, id, from) == [method |-> method, id |-> id, from |-> from]

\* what a line answers: the call of a task, or nothing (a notification)
Answers(method, from) == [method |-> method, from |-> from]

\* one line of a server's stdout: whether serde_json reads it as a
\* JsonRpcResponse, whether error and result are present, the keys of result
Line(json, error, has_result, keys, answers) ==
    [json |-> json, error |-> error, result |-> has_result, keys |-> keys,
     answers |-> answers]

Notification == Line(TRUE, FALSE, FALSE, {}, Answers(None, None))

\* Ok(None) of receive_line: the server closed its stdout
NoLine == [some |-> FALSE, line |-> Notification]

\* Faulty variant: the line is returned and stays in the reader's buffer.
receive_line_peek(stdout) ==
    IF stdout = <<>> THEN NoLine @@ [rest |-> <<>>]
    ELSE [some |-> TRUE, line |-> Head(stdout), rest |-> stdout]

\* reader.read_line(&mut line): 0 bytes is Ok(None), else the first line
receive_line(stdout) ==
    IF stdout = <<>> THEN NoLine @@ [rest |-> <<>>]
    ELSE [some |-> TRUE, line |-> Head(stdout), rest |-> Tail(stdout)]

\* Faulty variant: the error field of the response is not looked at.
initialize_ignores_error(r) ==
    r.some /\ r.line.json /\ r.line.result
           /\ {"serverInfo", "capabilities"} \subseteq r.line.keys

\* McpClient::initialize, from the line read to the initialized
\* notification: TRUE when the notification is to be sent
initialize(r) ==
    /\ r.some
    /\ r.line.json
    /\ ~r.line.error
    /\ r.line.result
    /\ "serverInfo" \in r.line.keys
    /\ "capabilities" \in r.line.keys

\* McpClient::list_tools: whether the Vec<Tool> returned holds a tool
list_tools(r) ==
    [ok |-> ~r.some \/ r.line.json,
     tools |-> r.some /\ r.line.json /\ r.line.result /\ "tools" \in r.line.keys]

\* McpClient::call_tool: Ok(result) or Err
call_tool(r) == r.some /\ r.line.json /\ ~r.line.error /\ r.line.result

\* what a tool server may write for a request it has read
Replies(req) ==
    LET a == Answers(req.method, req.from) IN
    CASE req.method = "initialize" ->
           {Line(FALSE, FALSE, FALSE, {}, a), Line(TRUE, TRUE, FALSE, {}, a),
            Line(TRUE, FALSE, FALSE, {}, a), Line(TRUE, FALSE, TRUE, {"capabilities"}, a),
            Line(TRUE, FALSE, TRUE, {"serverInfo"}, a),
            Line(TRUE, FALSE, TRUE, {"serverInfo", "capabilities"}, a),
            Line(TRUE, TRUE, TRUE, {"serverInfo", "capabilities"}, a)}
      [] req.method = "tools/list" ->
           {Line(TRUE, FALSE, TRUE, {"tools"}, a), Line(TRUE, TRUE, FALSE, {}, a)}
      [] req.method = "tools/call" ->
           {Line(TRUE, FALSE, TRUE, {"content"}, a), Line(TRUE, TRUE, FALSE, {}, a)}
      [] OTHER -> {}

\* a configured server before main starts it
Unstarted ==
    [spawned |-> FALSE, tried |-> FALSE, open |-> FALSE, stdin |-> <<>>, stdout |-> <<>>,
     notifications |-> 0, lockstep |-> TRUE, timed_out |-> FALSE,
     read |-> NoLine, initialized |-> FALSE]

\* a task that has not begun
Idle(at) ==
    [pc |-> at, fn |-> None, server |-> None, todo |-> {}, metadata |-> {},
     got |-> NoLine, ret |-> None]

\* GlobalState::new: an empty client map; main is about to start the servers
McpInit ==
    /\ mcp_clients = {}
    /\ locks = [clients |-> None, stdin |-> [s \in Servers |-> None],
                reader |-> [s \in Servers |-> None]]
    /\ pipes = [s \in Servers |-> Unstarted]
    /\ tasks = [t \in Tasks |-> Idle(IF t = "main" THEN "boot_lock" ELSE "idle")]

(***************************************************************************)
(* The supervisor (src/core/supervisor.rs), the event log it polls and the *)
(* outbox the fact command fills                                           *)
(***************************************************************************)
\* the most events recorded, facts queued and milliseconds passed in one behaviour
MaxEvents == 3
MaxFacts == 2
MaxClock == 2

\* the limit of the query of poll_events (":limit 50"), scaled to the events of a behaviour
PollLimit == 2

Facts == 1..MaxFacts

\* what a batch holds: an event of the log or a fact of the outbox
EventItem(id) == <<"event", id>>
FactItem(f) == <<"fact", f>>
Items == {EventItem(id) : id \in 1..MaxEvents} \cup {FactItem(f) : f \in Facts}

\* the updates Telegram delivers that act on the executor, and none
Updates == {"none", "/start", "/stop", "restart"}

\* Supervisor::new: no executor, auto_heal on, last_event_ts the time of the
\* start; the log and the outbox hold nothing yet
SupInit ==
    /\ clock = 0
    /\ supervisor = [pc |-> "get_updates", executor |-> "none", auto_heal |-> TRUE,
                     last_event_ts |-> 0, batch |-> <<>>]
    /\ event_rows = {}
    /\ outbox = [f \in Facts |-> "absent"]
    /\ writers = [f \in Facts |-> "idle"]
    /\ forwarded = [i \in Items |-> 0]
    /\ announced = FALSE

LoopInit ==
    /\ priority = <<>>
    /\ background = <<>>
    /\ closed = {}
    /\ sent = 0
    /\ pc = "select"
    /\ selected_at = 0
    /\ result = [ok |-> TRUE, err |-> None]
    /\ impulse = [imp |-> Impulse(None, 0, None, <<>>), lane |-> None]
    /\ directives = <<>>
    /\ should_shutdown = FALSE
    /\ directive = Directive_new(None, Payload(0, None, <<>>))
    /\ event_log = <<>>
    /\ sessions = <<>>
    /\ llm_calls = [sid \in SessionIds |-> 0]
    /\ ok_steps = [sid \in SessionIds |-> 0]
    /\ sync_log = <<>>
    /\ nodes = <<>>
    /\ skills = {}

\* no function has been applied outside the loop
NoCall == [fn |-> None, arg |-> None, ret |-> None, done |-> FALSE]

Init == FsInit /\ LoopInit /\ call = NoCall /\ McpInit /\ SupInit

procvars == <<pc, selected_at, impulse, directives, should_shutdown, directive,
              result, event_log, sessions, llm_calls, ok_steps, sync_log, nodes,
              skills>>

apivars == <<last, lastWrite, hist, ops, call, mcpvars, supvars>>

\* InitiateSession impulses that have not created their session yet
RECURSIVE Initiating(_)
Initiating(q) ==
    IF q = <<>> THEN 0
    ELSE (IF Head(q).kind = "InitiateSession" THEN 1 ELSE 0) + Initiating(Tail(q))

InFlightInitiate ==
    IF \/ pc = "for" /\ directives # <<>>
          /\ Head(directives).type_name = "initiate_session"
       \/ pc = "dispatch" /\ directive.type_name = "initiate_session"
    THEN 1 ELSE 0

MaySend(imp, limit) ==
    /\ sent < limit
    /\ pc # "done"
    /\ imp.kind = "InitiateSession" =>
           Cardinality(DOMAIN sessions) + Initiating(priority) + Initiating(background)
               + InFlightInitiate < MaxSessions

\* Faulty variant: an impulse sent to a full lane is dropped.
SendToLossy(lane, alphabet, limit) ==
    \E imp \in alphabet :
        /\ MaySend(imp, limit)
        /\ lane \notin closed
        /\ sent' = sent + 1
        /\ IF lane = "FAST"
           THEN /\ priority' = IF Len(priority) < PriorityCapacity
                               THEN Append(priority, [imp EXCEPT !.seq = sent + 1])
                               ELSE priority
                /\ UNCHANGED background
           ELSE /\ background' = IF Len(background) < BackgroundCapacity
                                 THEN Append(background, [imp EXCEPT !.seq = sent + 1])
                                 ELSE background
                /\ UNCHANGED priority
        /\ UNCHANGED <<closed, procvars, files, dirs, apivars>>

\* a producer sends an impulse: Sender::send waits while the lane is full
\* and fails once the receiver is gone
SendTo(lane, alphabet, limit) ==
    \E imp \in alphabet :
        /\ MaySend(imp, limit)
        /\ lane \notin closed
        /\ sent' = sent + 1
        /\ IF lane = "FAST"
           THEN /\ Len(priority) < PriorityCapacity
                /\ priority' = Append(priority, [imp EXCEPT !.seq = sent + 1])
                /\ UNCHANGED background
           ELSE /\ Len(background) < BackgroundCapacity
                /\ background' = Append(background, [imp EXCEPT !.seq = sent + 1])
                /\ UNCHANGED priority
        /\ UNCHANGED <<closed, procvars, files, dirs, apivars>>

SendPriority == SendTo("FAST", PriorityImpulses, MaxImpulses)

SendBackground == SendTo("SLOW", BackgroundImpulses, MaxImpulses)

SendSession == SendTo("FAST", SessionImpulses, MaxSessionImpulses)

\* the last sender of a lane is dropped
CloseLane ==
    \E lane \in Lanes \ closed :
        /\ closed' = closed \cup {lane}
        /\ UNCHANGED <<priority, background, sent, procvars, files, dirs, apivars>>

Take(imp, lane) ==
    /\ impulse' = [imp |-> imp, lane |-> lane]
    /\ directives' = route_impulse(imp)
    /\ should_shutdown' = FALSE
    /\ pc' = "for"

\* Faulty variant: the background lane is polled first.
PollPriorityUnbiased ==
    /\ pc = "select"
    /\ IF background # <<>>
       THEN Take(Head(background), "SLOW") /\ background' = Tail(background)
            /\ UNCHANGED priority
       ELSE IF priority # <<>>
       THEN Take(Head(priority), "FAST") /\ priority' = Tail(priority)
            /\ UNCHANGED background
       ELSE pc' = "poll_bg"
            /\ UNCHANGED <<priority, background, impulse, directives, should_shutdown>>
    /\ selected_at' = sent
    /\ UNCHANGED <<closed, sent, directive, result, event_log, sessions, llm_calls,
                   ok_steps, sync_log, nodes, skills, files, dirs, apivars>>

\* select! { biased; .. }: the first branch, priority_rx.recv()
PollPriority ==
    /\ pc = "select"
    /\ IF priority # <<>>
       THEN Take(Head(priority), "FAST") /\ priority' = Tail(priority)
       ELSE pc' = "poll_bg" /\ UNCHANGED <<priority, impulse, directives, should_shutdown>>
    /\ selected_at' = sent
    /\ UNCHANGED <<background, closed, sent, directive, result, event_log, sessions,
                   llm_calls, ok_steps, sync_log, nodes, skills, files, dirs, apivars>>

\* Faulty variant: the selection has no branch for the background lane.
PollBackgroundNever ==
    /\ pc = "poll_bg"
    /\ pc' = IF closed = Lanes /\ priority = <<>> THEN "done" ELSE "suspended"
    /\ UNCHANGED <<priority, background, impulse, directives, should_shutdown, closed,
                   sent, selected_at, directive, result, event_log, sessions, llm_calls,
                   ok_steps, sync_log, nodes, skills, files, dirs, apivars>>

\* the second branch, background_rx.recv(), reached when the first one had
\* nothing; with both lanes closed and drained the else branch ends the loop
PollBackground ==
    /\ pc = "poll_bg"
    /\ IF background # <<>>
       THEN Take(Head(background), "SLOW") /\ background' = Tail(background)
       ELSE /\ pc' = IF closed = Lanes /\ priority = <<>> THEN "done" ELSE "suspended"
            /\ UNCHANGED <<background, impulse, directives, should_shutdown>>
    /\ UNCHANGED <<priority, closed, sent, selected_at, directive, result, event_log,
                   sessions, llm_calls, ok_steps, sync_log, nodes, skills, files,
                   dirs, apivars>>

\* Faulty variant: the selection is polled again while a handler is running.
WakeWhileDispatching ==
    /\ pc \in {"suspended", "dispatch"}
    /\ priority # <<>> \/ background # <<>> \/ closed = Lanes
    /\ pc' = "select"
    /\ UNCHANGED <<priority, background, closed, sent, selected_at, impulse,
                   directives, should_shutdown, directive, result, event_log,
                   sessions, llm_calls, ok_steps, sync_log, nodes, skills, files,
                   dirs, apivars>>

\* the suspended selection is polled again when a lane has something
Wake ==
    /\ pc = "suspended"
    /\ priority # <<>> \/ background # <<>> \/ closed = Lanes
    /\ pc' = "select"
    /\ UNCHANGED <<priority, background, closed, sent, selected_at, impulse,
                   directives, should_shutdown, directive, result, event_log,
                   sessions, llm_calls, ok_steps, sync_log, nodes, skills, files,
                   dirs, apivars>>

ExecOp(type_name) == <<"EXEC", type_name>>

ErrorOp(type_name) == <<"ERROR", type_name>>

\* Faulty variant: the records are stored under their op.
record_event_by_op(log, e) == SelectSeq(log, LAMBDA x : x.op # e.op) \o <<e>>

\* :put event_log under a new Uuid: the position in the log stands for the id
record_event(log, e) == Append(log, e)

\* the calls of record_event of one step, in their order
RECURSIVE record_events(_, _)
record_events(log, evs) ==
    IF evs = <<>> THEN log
    ELSE record_events(record_event(log, Head(evs)), Tail(evs))

\* the next directive of the impulse; interpret records the intent
InterpretRecord ==
    /\ pc = "for"
    /\ directives # <<>>
    /\ directive' = Head(directives)
    /\ directives' = Tail(directives)
    /\ should_shutdown' = (should_shutdown \/ Head(directives).type_name = "shutdown")
    /\ event_log' = record_event(event_log,
                                 Event(ExecOp(Head(directives).type_name),
                                       Head(directives).payload))
    /\ pc' = "dispatch"
    /\ UNCHANGED <<priority, background, closed, sent, selected_at, impulse, result,
                   sessions, llm_calls, ok_steps, sync_log, nodes, skills, files,
                   dirs, apivars>>

\* Faulty variant: the failure of a dispatch is not recorded.
RecordFailureNever(d, r) == <<>>

\* if let Err(e) = dispatch(..) { record_event("ERROR:<type>", {"error": e}) }
RecordFailure(d, r) ==
    IF r.ok THEN <<>> ELSE <<Event(ErrorOp(d.type_name), [error |-> r.err])>>

\* interpret dispatches the directive and records a failure
Dispatch(envs) ==
    /\ pc = "dispatch"
    /\ \E env \in envs :
        \E r \in {dispatch(directive.type_name, directive.payload, sessions,
                           files, dirs, nodes, sync_log, skills, env)} :
          /\ sessions' = r.sessions
          /\ files' = r.files
          /\ dirs' = r.dirs
          /\ nodes' = r.nodes
          /\ sync_log' = r.sync_log
          /\ skills' = r.skills
          /\ llm_calls' = IF r.llm # "none"
                          THEN [llm_calls EXCEPT ![r.sid] = @ + 1] ELSE llm_calls
          /\ ok_steps' = IF r.llm = "ok"
                         THEN [ok_steps EXCEPT ![r.sid] = @ + 1] ELSE ok_steps
          /\ result' = [ok |-> r.ok, err |-> r.err]
          /\ event_log' = record_events(event_log,
                                        r.events \o RecordFailure(directive, r))
    /\ pc' = "for"
    /\ UNCHANGED <<priority, background, closed, sent, selected_at, impulse,
                   directives, should_shutdown, directive, apivars>>

\* Faulty variant: the shutdown flag is not looked at.
EndImpulseIgnoresShutdown ==
    /\ pc = "for"
    /\ directives = <<>>
    /\ pc' = "select"
    /\ UNCHANGED <<priority, background, closed, sent, selected_at, impulse,
                   directives, should_shutdown, directive, result, event_log,
                   sessions, llm_calls, ok_steps, sync_log, nodes, skills, files,
                   dirs, apivars>>

\* Faulty variant: a failed dispatch ends the loop.
EndImpulseStopsOnError ==
    /\ pc = "for"
    /\ directives = <<>>
    /\ pc' = IF should_shutdown \/ ~result.ok THEN "done" ELSE "select"
    /\ UNCHANGED <<priority, background, closed, sent, selected_at, impulse,
                   directives, should_shutdown, directive, result, event_log,
                   sessions, llm_calls, ok_steps, sync_log, nodes, skills, files,
                   dirs, apivars>>

\* the directives of the impulse are done: leave the loop or select again
EndImpulse ==
    /\ pc = "for"
    /\ directives = <<>>
    /\ pc' = IF should_shutdown THEN "done" ELSE "select"
    /\ UNCHANGED <<priority, background, closed, sent, selected_at, impulse,
                   directives, should_shutdown, directive, result, event_log,
                   sessions, llm_calls, ok_steps, sync_log, nodes, skills, files,
                   dirs, apivars>>

InterpretDispatch == Dispatch(LoopEnvs)

StepDispatch == Dispatch(SessionEnvs)

Next ==
    \/ SendPriority
    \/ SendBackground
    \/ CloseLane
    \/ PollPriority
    \/ PollBackground
    \/ Wake
    \/ InterpretRecord
    \/ InterpretDispatch
    \/ EndImpulse

SessionNext ==
    \/ SendSession
    \/ PollPriority
    \/ PollBackground
    \/ Wake
    \/ InterpretRecord
    \/ StepDispatch
    \/ EndImpulse

vars == <<fsvars, loopvars>>

\* the event loop fed with every kind of impulse on both lanes
Spec == Init /\ [][Next]_vars

\* a step of the task that runs cortex_loop
LoopStep ==
    \/ PollPriority
    \/ PollBackground
    \/ Wake
    \/ InterpretRecord
    \/ InterpretDispatch
    \/ EndImpulse

\* impulses without a session: two kinds on the priority lane, three on the
\* background lane; two of the five are routed to a type without a handler
SendUrgent ==
    SendTo("FAST", {Impulse("SystemInterrupt", 0, None, <<>>),
                    Impulse("Error", 0, "e", <<>>)}, MaxImpulses)

SendRoutine ==
    SendTo("SLOW", {Impulse("JanitorWakeup", 0, None, <<>>),
                    Impulse("BootstrapSkills", 0, None, <<>>),
                    Impulse("FileSystemEvent", 0, None, <<Rel(<<"a.txt">>)>>)},
           MaxImpulses)

FairNext ==
    \/ SendUrgent
    \/ SendRoutine
    \/ LoopStep

\* a step of cortex_loop itself, outside the handlers
ControlStep ==
    \/ PollPriority
    \/ PollBackground
    \/ Wake
    \/ InterpretRecord
    \/ EndImpulse

\* the event loop on a runtime that keeps scheduling its task, with handlers
\* that return: a dispatch, the one step of LoopStep that is no ControlStep,
\* is enabled whenever a handler is running
SpecFair ==
    Init /\ [][FairNext]_vars /\ WF_vars(ControlStep) /\ []<>(pc # "dispatch")

Capacity(lane) == IF lane = "FAST" THEN PriorityCapacity ELSE BackgroundCapacity

\* no impulse has been sent to the lane
Unused(lane) ==
    /\ impulse.lane # lane
    /\ IF lane = "FAST" THEN priority = <<>> ELSE background = <<>>

\* a producer that sends one impulse more than the lane holds, while the
\* other lane stays unused
Flood(lane, other, imp) ==
    /\ Unused(other)
    /\ SendTo(lane, {imp}, Capacity(lane) + 1)

\* the priority lane flooded by a producer of its own
FloodPriority == Flood("FAST", "SLOW", Impulse("Error", 0, "e", <<>>))

\* the background lane flooded by the errors of the watcher
FloodBackground == Flood("SLOW", "FAST", Impulse("Error", 0, "e", <<>>))

\* the producer of a flood has an impulse to send and a free slot to send
\* it to
Ahead(q, lane) ==
    /\ q # <<>>
    /\ Len(q) < Capacity(lane)
    /\ sent < Capacity(lane) + 1

\* the loop with the producer ahead of it: once the flood has started, the
\* loop task runs when the producer waits for a slot or has sent all it had
LanesNext ==
    \/ FloodPriority
    \/ FloodBackground
    \/ ~Ahead(priority, "FAST") /\ ~Ahead(background, "SLOW") /\ LoopStep

\* the event loop with one of its lanes flooded
SpecLanes == Init /\ [][LanesNext]_vars

\* the event loop fed with the impulses that drive sessions
SpecSession == Init /\ [][SessionNext]_vars

\* sessions on a runtime that keeps scheduling the task of the loop, with
\* handlers that return; no producer is obliged to send
SpecSessionFair ==
    Init /\ [][SessionNext]_vars /\ WF_vars(ControlStep) /\ []<>(pc # "dispatch")

SpecFS == Init /\ [][FsNext]_vars

(***************************************************************************)
(* Functions applied on their own: call holds the function, its argument   *)
(* and, once it has returned, its result.                                  *)
(***************************************************************************)
\* all the state of the event loop and of the overlay
progvars == <<files, dirs, last, lastWrite, hist, ops, priority, background,
              closed, sent, procvars, mcpvars, supvars>>

Calling(fn, args) == call \in {[fn |-> fn, arg |-> a, ret |-> None, done |-> FALSE] : a \in args}

Return(ret) == call' = [call EXCEPT !.ret = ret, !.done = TRUE]

Returned(fn) == call.fn = fn /\ call.done

\* length of the responses, in lexical pieces
MaxLen == 4

\* the actions found in the JSON text of the responses
ResponseActions ==
    <<WriteFileAction(Rel(<<"a.txt">>), "v2"), Plain("CommitOverlay")>>

\* the lexical pieces of the responses: prose, both fences, text that looks
\* like JSON and is none, one action, the arrays of no, one and two actions
ResponsePieces ==
    {T, FJ, F3, BAD, Obj(ResponseActions[1]), Arr(<<>>),
     Arr(<<ResponseActions[2]>>), Arr(ResponseActions)}

ResponseTexts == UNION {[1..n -> ResponsePieces] : n \in 0..MaxLen}

ParseInit == FsInit /\ LoopInit /\ McpInit /\ SupInit /\ Calling("parse_action", ResponseTexts)

ParseAction ==
    /\ call.fn = "parse_action"
    /\ ~call.done
    /\ Return(parse_action(call.arg))
    /\ UNCHANGED progvars

ParseNext == ParseAction

\* parse_action applied to every response of at most MaxLen pieces
SpecParse == ParseInit /\ [][ParseNext]_vars

\* number of actions of a rendered list
MaxActs == 2

\* a file content that holds a markdown fence
Fenced == "fenced"

\* the actions rendered: two WriteFile, one of them of a content with a
\* fence in it, an action without fields of its own, and an Answer
RenderActions ==
    {WriteFileAction(Rel(<<"a.txt">>), "v2"),
     WriteFileAction(Rel(<<"a.txt">>), Fenced),
     Plain("CommitOverlay"),
     Answer(<<T>>)}

HasFence(a) == "content" \in DOMAIN a /\ a.content = Fenced

\* the JSON text of the values up to the first whose text holds a fence cut
\* into pieces: JSON strings keep a fence as it is, so the text of an action
\* with a fence in a field is text that is no JSON, the fence, and more text
\* that is no JSON
RECURSIVE JsonRest(_)
JsonRest(acts) ==
    IF acts = <<>> THEN <<>>
    ELSE IF HasFence(Head(acts)) THEN <<F3, BAD>> \o JsonRest(Tail(acts))
    ELSE JsonRest(Tail(acts))

\* serde_json text of the array of the actions, or of the one action
to_string(acts, form) ==
    IF \E i \in 1..Len(acts) : HasFence(acts[i]) THEN <<BAD>> \o JsonRest(acts)
    ELSE IF form = "object" THEN <<Obj(acts[1])>>
    ELSE <<Arr(acts)>>

\* the response with the one ```json block that holds the text, prose around
render(r) == r.pre \o <<FJ>> \o to_string(r.actions, r.form) \o <<F3>> \o r.post

Prose == {<<>>, <<T>>}

Renderings ==
    {r \in [actions : UNION {[1..n -> RenderActions] : n \in 0..MaxActs},
            form : {"array", "object"}, pre : Prose, post : Prose] :
        r.form = "object" => Len(r.actions) = 1}

RenderInit == FsInit /\ LoopInit /\ McpInit /\ SupInit /\ Calling("render", Renderings)

RenderParse ==
    /\ call.fn = "render"
    /\ ~call.done
    /\ Return(parse_action(render(call.arg)))
    /\ UNCHANGED progvars

RenderNext == RenderParse

\* parse_action applied to the rendering of every list of at most MaxActs
\* actions
SpecRender == RenderInit /\ [][RenderNext]_vars

\* length of the text of an Error status
MaxText == 2

StatusTexts == UNION {[1..n -> {"a", "dq", "bs", "rp"}] : n \in 0..MaxText}

Statuses ==
    {<<"Idle">>, <<"Thinking">>, <<"AwaitingObservation">>, <<"Completed">>}
        \cup {SessionStatus_Error(text) : text \in StatusTexts}

\* the sessions stored and read back: the first session id, one message or
\* two, at two depths, in every status
StoredSessions ==
    [id : {1}, messages : {<<Msg("user", "p", 0)>>,
                           <<Msg("user", "p", 0), Msg("sly", "hello", 0)>>},
     depth : {0, 1}, status : Statuses]

\* the store before the call: empty, or holding the session as it was
\* created, or holding it with three messages
StoresBefore ==
    {<<>>,
     create_session(<<>>, AgentSession_new(1, Msg("user", "p", 0))),
     create_session(<<>>, with_message(with_message(
         AgentSession_new(1, Msg("user", "p", 0)), Msg("sly", "hello", 0)),
         Msg("obs", "o", 0)))}

StoreInit ==
    FsInit /\ LoopInit /\ McpInit /\ SupInit
        /\ Calling("store", [op : {"create_session", "update_session"},
                             S : StoresBefore, session : StoredSessions])

\* create_session or update_session followed by get_session of the same id
StoreThenGet ==
    /\ call.fn = "store"
    /\ ~call.done
    /\ Return(get_session(IF call.arg.op = "create_session"
                          THEN create_session(call.arg.S, call.arg.session)
                          ELSE update_session(call.arg.S, call.arg.session),
                          call.arg.session.id))
    /\ UNCHANGED progvars

StoreNext == StoreThenGet

\* sessions stored and read back
SpecStore == StoreInit /\ [][StoreNext]_vars

(***************************************************************************)
(* Ingestion passes applied to a tree of source files.                     *)
(***************************************************************************)
\* number of ingestion passes
MaxPasses == 2

\* the texts each source file takes: two Rust files that may define the same
\* item, one of them possibly unparsable, two Markdown files whose headings
\* may differ in case only, and a text file
SourceTexts ==
    (<<"m.rs">> :> {<<Item("fn", "main", "pub")>>,
                    <<Item("fn", "main", "pub"), Item("struct", "User", "pub")>>})
    @@ (<<"n.rs">> :> {<<Item("fn", "main", "")>>,
                       <<Item("fn", "run", "pub"), Item("broken", "", "")>>})
    @@ (<<"r.md">> :> {<<Item("h1", "Intro", "")>>,
                       <<Item("h1", "Set Up", ""), Item("text", "", "")>>})
    @@ (<<"s.md">> :> {<<Item("h1", "intro", "")>>})
    @@ (<<"a.txt">> :> {<<Item("text", "v1", "")>>, <<Item("text", "v2", "")>>})

\* the trees the passes start from: the Rust files are in either text, the
\* other files in their first one
SourceTrees ==
    {F \in [{Join(base_dir, c) : c \in DOMAIN SourceTexts} ->
               UNION {SourceTexts[c] : c \in DOMAIN SourceTexts}] :
        /\ \A c \in DOMAIN SourceTexts : F[Join(base_dir, c)] \in SourceTexts[c]
        /\ F[Join(base_dir, <<"r.md">>)] = <<Item("h1", "Intro", "")>>
        /\ F[Join(base_dir, <<"a.txt">>)] = <<Item("text", "v1", "")>>}

\* the batches of paths ingested: a directory is among them
Batches ==
    {<<Rel(<<"m.rs">>)>>, <<Rel(<<"n.rs">>)>>,
     <<Rel(<<"m.rs">>), Rel(<<"n.rs">>)>>,
     <<Rel(<<"r.md">>), Rel(<<"s.md">>)>>,
     <<Rel(<<"d">>), Rel(<<"a.txt">>), Rel(<<"m.rs">>)>>,
     <<Rel(<<"a.txt">>), Rel(<<"n.rs">>), Rel(<<"r.md">>)>>}

\* the embedding engine answers every time, fails the first time, or fails
\* the second time
EmbedOutcomes == {<<>>, <<FALSE>>, <<TRUE, FALSE>>}

IngestInit ==
    /\ LoopInit
    /\ McpInit /\ SupInit
    /\ files \in SourceTrees
    /\ dirs = InitDirs
    /\ last = [op |-> "new", path |-> Rel(<<>>), ok |-> TRUE, err |-> None,
               val |-> None, target |-> <<>>]
    /\ lastWrite = <<>>
    /\ hist = [committed |-> FALSE, deleted |-> FALSE, rolledback |-> FALSE]
    /\ ops = 0
    /\ call = [fn |-> "ingest_batch", arg |-> [pass |-> 0, paths |-> <<>>, embed_ok |-> <<>>],
               ret |-> TRUE, done |-> FALSE]

\* one call of ingest_batch on the store and the tree as they are
IngestPass ==
    /\ call.arg.pass < MaxPasses
    /\ \E paths \in Batches, embed_ok \in EmbedOutcomes :
         \E r \in {ingest_batch(paths, nodes, sync_log, files, dirs, embed_ok)} :
            /\ nodes' = r.nodes
            /\ sync_log' = r.sync_log
            /\ event_log' = record_events(event_log, r.events)
            /\ call' = [fn |-> "ingest_batch",
                        arg |-> [pass |-> call.arg.pass + 1, paths |-> paths,
                                 embed_ok |-> embed_ok],
                        ret |-> r.ok, done |-> TRUE]
    /\ UNCHANGED <<fsvars, priority, background, closed, sent, pc, selected_at,
                   impulse, directives, should_shutdown, directive, result,
                   sessions, llm_calls, ok_steps, skills, mcpvars, supvars>>

\* a source file is saved with another text between two passes
EditSource ==
    /\ call.done
    /\ call.arg.pass < MaxPasses
    /\ \E c \in {<<"r.md">>, <<"a.txt">>} : \E text \in SourceTexts[c] \ {files[Join(base_dir, c)]} :
          files' = [files EXCEPT ![Join(base_dir, c)] = text]
    /\ call' = [call EXCEPT !.done = FALSE]
    /\ UNCHANGED <<dirs, last, lastWrite, hist, ops, priority, background, closed, sent,
                   procvars, mcpvars, supvars>>

IngestNext == IngestPass \/ EditSource

\* ingestion passes over the source tree, with edits between them
SpecIngest == IngestInit /\ [][IngestNext]_vars

(***************************************************************************)
(* The tool subsystem at work: the startup of the servers (src/main.rs),   *)
(* the transport's send and receive_line, the servers, and the tool part   *)
(* of step_agent_session                                                   *)
(***************************************************************************)
\* everything but the tool subsystem
nonmcpvars == <<fsvars, priority, background, closed, sent, procvars, call, supvars>>

\* the method a client function puts in its request
Method(fn) ==
    CASE fn = "initialize" -> "initialize"
      [] fn = "initialized" -> "notifications/initialized"
      [] fn = "list_tools" -> "tools/list"
      [] OTHER -> "tools/call"

\* the id of the request: Some(1), Some(2), a fresh uuid, or None
RequestId(fn, t) ==
    CASE fn = "initialize" -> "1"
      [] fn = "initialized" -> None
      [] fn = "list_tools" -> "2"
      [] OTHER -> "uuid-" \o t

\* a request of task u has been written to server s and u has not read a line since
InFlight(u, s) == tasks[u].server = s /\ tasks[u].pc \in {"recv_lock", "recv_wait"}

\* main.rs 143: let mut clients = state.mcp_clients.lock().await
BootLock ==
    /\ tasks["main"].pc = "boot_lock"
    /\ locks.clients = None
    /\ locks' = [locks EXCEPT !.clients = "main"]
    /\ tasks' = [tasks EXCEPT !["main"].pc = "boot_next", !["main"].todo = Servers]
    /\ UNCHANGED <<mcp_clients, pipes, nonmcpvars>>

\* for (name, server_config) in &config.mcp_servers: StdioTransport::new
\* spawns the child or fails; a HashMap yields its entries in any order
BootSpawn ==
    /\ tasks["main"].pc = "boot_next"
    /\ \E s \in tasks["main"].todo, spawned \in BOOLEAN :
         /\ pipes' = [pipes EXCEPT ![s] = [@ EXCEPT !.tried = TRUE, !.spawned = spawned,
                                                    !.open = spawned]]
         /\ tasks' = [tasks EXCEPT !["main"] =
                         [@ EXCEPT !.todo = @ \ {s}, !.server = s, !.fn = "initialize",
                                   !.pc = IF spawned THEN "send_lock" ELSE "boot_next"]]
    /\ UNCHANGED <<mcp_clients, locks, nonmcpvars>>

\* the end of the block drops the guard of the client map
BootDone ==
    /\ tasks["main"].pc = "boot_next"
    /\ tasks["main"].todo = {}
    /\ locks' = [locks EXCEPT !.clients = None]
    /\ tasks' = [tasks EXCEPT !["main"].pc = "done"]
    /\ UNCHANGED <<mcp_clients, pipes, nonmcpvars>>

\* StdioTransport::send: let mut stdin = self.stdin.lock().await
SendLock(t) ==
    /\ tasks[t].pc = "send_lock"
    /\ locks.stdin[tasks[t].server] = None
    /\ locks' = [locks EXCEPT !.stdin[tasks[t].server] = t]
    /\ tasks' = [tasks EXCEPT ![t].pc = "send_write"]
    /\ UNCHANGED <<mcp_clients, pipes, nonmcpvars>>

\* where a client function goes on when its send failed
AfterSendError(task) ==
    CASE task.fn \in {"initialize", "initialized"} -> [task EXCEPT !.pc = "boot_next"]
      [] task.fn = "list_tools" -> [task EXCEPT !.pc = "meta_next"]
      [] OTHER -> [task EXCEPT !.pc = "done", !.ret = "err"]

\* StdioTransport::send: write_all and flush, then the guard is dropped.
\* The write fails once the child has gone.  After the initialized
\* notification initialize returns Ok and main inserts the client.
SendWrite(t) ==
    /\ tasks[t].pc = "send_write"
    /\ \E s \in {tasks[t].server} :
         /\ locks' = [locks EXCEPT !.stdin[s] = None]
         /\ IF pipes[s].open
            THEN /\ pipes' = [pipes EXCEPT ![s] =
                        [@ EXCEPT !.stdin = Append(@, JsonRpcRequest(Method(tasks[t].fn),
                                                       RequestId(tasks[t].fn, t), t)),
                                  !.initialized = @ \/ tasks[t].fn = "initialized",
                                  !.lockstep = @ /\ (tasks[t].fn = "initialized"
                                                     \/ \A u \in Tasks \ {t} : ~InFlight(u, s))]]
                 /\ tasks' = [tasks EXCEPT ![t].pc =
                                 IF tasks[t].fn = "initialized" THEN "boot_next" ELSE "recv_lock"]
                 /\ mcp_clients' = IF tasks[t].fn = "initialized" THEN mcp_clients \cup {s}
                                   ELSE mcp_clients
            ELSE /\ tasks' = [tasks EXCEPT ![t] = AfterSendError(@)]
                 /\ UNCHANGED <<mcp_clients, pipes>>
    /\ UNCHANGED nonmcpvars

\* StdioTransport::receive_line: let mut reader = self.reader.lock().await
RecvLock(t) ==
    /\ tasks[t].pc = "recv_lock"
    /\ locks.reader[tasks[t].server] = None
    /\ locks' = [locks EXCEPT !.reader[tasks[t].server] = t]
    /\ tasks' = [tasks EXCEPT ![t].pc = "recv_wait"]
    /\ UNCHANGED <<mcp_clients, pipes, nonmcpvars>>

\* what a client function does with the line it read
AfterLine(task, r) ==
    CASE task.fn = "initialize" ->
           IF initialize(r) THEN [task EXCEPT !.got = r, !.fn = "initialized", !.pc = "send_lock"]
           ELSE [task EXCEPT !.got = r, !.pc = "boot_next"]
      [] task.fn = "list_tools" ->
           [task EXCEPT !.got = r, !.pc = "meta_next",
                        !.metadata = IF list_tools(r).ok /\ list_tools(r).tools
                                     THEN @ \cup {task.server} ELSE @]
      [] OTHER ->
           [task EXCEPT !.got = r, !.pc = "done",
                        !.ret = IF call_tool(r) THEN "ok" ELSE "err"]

\* StdioTransport::receive_line: read_line returns when a line or the end of
\* the stream is there; the guard is dropped and the caller goes on
RecvLine(t) ==
    /\ tasks[t].pc = "recv_wait"
    /\ \E s \in {tasks[t].server} :
         /\ pipes[s].stdout # <<>> \/ ~pipes[s].open
         /\ \E r \in {receive_line(pipes[s].stdout)} :
              /\ pipes' = [pipes EXCEPT ![s] =
                             [@ EXCEPT !.stdout = r.rest,
                                       !.read = IF tasks[t].fn = "initialize"
                                                THEN [some |-> r.some, line |-> r.line] ELSE @]]
              /\ tasks' = [tasks EXCEPT ![t] = AfterLine(@, [some |-> r.some, line |-> r.line])]
         /\ locks' = [locks EXCEPT !.reader[s] = None]
    /\ UNCHANGED <<mcp_clients, nonmcpvars>>

\* main.rs 150: tokio::time::timeout(5 s, client.initialize()): the timer
\* fires while initialize waits for the line; the future is dropped with the
\* guard it holds, and main goes on with the next server
HandshakeTimeout ==
    /\ tasks["main"].pc = "recv_wait"
    /\ \E s \in {tasks["main"].server} :
         /\ pipes[s].stdout = <<>>
         /\ pipes[s].open
         /\ pipes' = [pipes EXCEPT ![s].timed_out = TRUE]
         /\ locks' = [locks EXCEPT !.reader[s] = None]
    /\ tasks' = [tasks EXCEPT !["main"].pc = "boot_next"]
    /\ UNCHANGED <<mcp_clients, nonmcpvars>>

\* a client of the server is alive: main is shaking hands with it, or it is registered
Attached(s) ==
    \/ s \in mcp_clients
    \/ tasks["main"].server = s /\ tasks["main"].pc \notin {"boot_lock", "boot_next", "done"}

\* the server reads a request and writes what it answers, if anything
ServerReply(s) ==
    /\ Attached(s)
    /\ pipes[s].open
    /\ pipes[s].stdin # <<>>
    /\ \E req \in {Head(pipes[s].stdin)} :
         IF Replies(req) = {}
         THEN pipes' = [pipes EXCEPT ![s].stdin = Tail(@)]
         ELSE \E line \in Replies(req) :
                 pipes' = [pipes EXCEPT ![s] = [@ EXCEPT !.stdin = Tail(@),
                                                         !.stdout = Append(@, line)]]
    /\ UNCHANGED <<mcp_clients, locks, tasks, nonmcpvars>>

\* the server writes a notification of its own
ServerNotify(s) ==
    /\ Attached(s)
    /\ pipes[s].open
    /\ pipes[s].notifications < MaxNotifications
    /\ pipes' = [pipes EXCEPT ![s] = [@ EXCEPT !.stdout = Append(@, Notification),
                                              !.notifications = @ + 1,
                                              !.lockstep = FALSE]]
    /\ UNCHANGED <<mcp_clients, locks, tasks, nonmcpvars>>

\* the server process ends: its pipes are closed
ServerExit(s) ==
    /\ Attached(s)
    /\ pipes[s].open
    /\ pipes' = [pipes EXCEPT ![s].open = FALSE]
    /\ UNCHANGED <<mcp_clients, locks, tasks, nonmcpvars>>

\* a handler calls step_agent_session, which calls get_all_tool_metadata
StartStep(t) ==
    /\ tasks["main"].pc = "done"
    /\ tasks[t].pc = "idle"
    /\ tasks' = [tasks EXCEPT ![t].pc = "meta_lock"]
    /\ UNCHANGED <<mcp_clients, locks, pipes, nonmcpvars>>

\* get_all_tool_metadata: let clients = clients_mutex.lock().await
MetaLock(t) ==
    /\ tasks[t].pc = "meta_lock"
    /\ locks.clients = None
    /\ locks' = [locks EXCEPT !.clients = t]
    /\ tasks' = [tasks EXCEPT ![t].pc = "meta_next", ![t].todo = mcp_clients]
    /\ UNCHANGED <<mcp_clients, pipes, nonmcpvars>>

\* for (name, client) in clients.iter(): client.list_tools().await
MetaList(t) ==
    /\ tasks[t].pc = "meta_next"
    /\ \E s \in tasks[t].todo :
         tasks' = [tasks EXCEPT ![t] = [@ EXCEPT !.todo = @ \ {s}, !.server = s,
                                                 !.fn = "list_tools", !.got = NoLine,
                                                 !.pc = "send_lock"]]
    /\ UNCHANGED <<mcp_clients, locks, pipes, nonmcpvars>>

\* get_all_tool_metadata returns: the guard of the client map is dropped
MetaReturn(t) ==
    /\ t \in Callers
    /\ tasks[t].pc = "meta_next"
    /\ tasks[t].todo = {}
    /\ locks' = [locks EXCEPT !.clients = None]
    /\ tasks' = [tasks EXCEPT ![t].pc = "tools"]
    /\ UNCHANGED <<mcp_clients, pipes, nonmcpvars>>

\* handle_action of CallTool: registry::call_mcp_tool finds the tool in the
\* metadata and calls it on its client
CallMcpTool(t) ==
    /\ tasks[t].pc = "tools"
    /\ \E s \in tasks[t].metadata :
         tasks' = [tasks EXCEPT ![t] = [@ EXCEPT !.server = s, !.fn = "call_tool",
                                                 !.got = NoLine, !.pc = "send_lock"]]
    /\ UNCHANGED <<mcp_clients, locks, pipes, nonmcpvars>>

\* the step ends without a tool call
StepReturn(t) ==
    /\ tasks[t].pc = "tools"
    /\ tasks' = [tasks EXCEPT ![t].pc = "done"]
    /\ UNCHANGED <<mcp_clients, locks, pipes, nonmcpvars>>

\* the transport under a client function, for any task
TransportStep ==
    \/ \E t \in Tasks : SendLock(t)
    \/ \E t \in Tasks : SendWrite(t)
    \/ \E t \in Tasks : RecvLock(t)
    \/ \E t \in Tasks : RecvLine(t)

BootNext ==
    \/ BootLock
    \/ BootSpawn
    \/ BootDone
    \/ HandshakeTimeout
    \/ TransportStep
    \/ \E s \in Servers : ServerReply(s)
    \/ \E s \in Servers : ServerNotify(s)
    \/ \E s \in Servers : ServerExit(s)

\* the startup of the tool servers
SpecBoot == Init /\ [][BootNext]_vars

\* a server as a successful handshake leaves it
Registered ==
    [Unstarted EXCEPT !.spawned = TRUE, !.tried = TRUE, !.open = TRUE, !.initialized = TRUE,
                      !.read = [some |-> TRUE,
                                line |-> Line(TRUE, FALSE, TRUE, {"serverInfo", "capabilities"},
                                              Answers("initialize", "main"))]]

\* the startup is over: the first server is registered, the other is not
ToolsInit ==
    /\ FsInit /\ LoopInit /\ call = NoCall /\ SupInit
    /\ mcp_clients = {"s1"}
    /\ locks = [clients |-> None, stdin |-> [s \in Servers |-> None],
                reader |-> [s \in Servers |-> None]]
    /\ pipes = [s \in Servers |-> IF s \in mcp_clients THEN Registered
                                  ELSE [Unstarted EXCEPT !.tried = TRUE]]
    /\ tasks = [t \in Tasks |-> IF t = "main" THEN [Idle("done") EXCEPT !.server = "s2"]
                                 ELSE Idle("idle")]

ToolsNext ==
    \/ TransportStep
    \/ \E s \in Servers : ServerReply(s)
    \/ \E s \in Servers : ServerNotify(s)
    \/ \E s \in Servers : ServerExit(s)
    \/ \E t \in Callers : StartStep(t)
    \/ \E t \in Callers : MetaLock(t)
    \/ \E t \in Callers : MetaList(t)
    \/ \E t \in Callers : MetaReturn(t)
    \/ \E t \in Callers : CallMcpTool(t)
    \/ \E t \in Callers : StepReturn(t)

\* the tasks that use the registered tool servers
SpecTools == ToolsInit /\ [][ToolsNext]_vars

(***************************************************************************)
(* The supervisor at work: its loop (Supervisor::run), the executor it     *)
(* watches, the event log and the fact command                             *)
(***************************************************************************)
\* everything but the supervisor
nonsupvars == <<fsvars, priority, background, closed, sent, procvars, call, mcpvars>>

\* the numbers of a set in ascending order
RECURSIVE SortedIds(_)
SortedIds(S) ==
    IF S = {} THEN <<>>
    ELSE LET m == CHOOSE x \in S : \A y \in S : x <= y
         IN  <<m>> \o SortedIds(S \ {m})

Largest(S) == CHOOSE x \in S : \A y \in S : y <= x

\* one more push of each item of the set
Pushed(items) == [i \in Items |-> IF i \in items THEN forwarded[i] + 1 ELSE forwarded[i]]

\* start_executor: nothing when a child is held; otherwise the spawn, which may fail
start_executor(executor, spawned) ==
    IF executor # "none" THEN executor
    ELSE IF spawned THEN "running" ELSE "none"

\* stop_executor: the child, if any, is taken and killed
stop_executor(executor) == "none"

\* handle_command and handle_callback, as far as they act on the executor
HandleUpdate(update, executor, spawned) ==
    CASE update = "/start" -> start_executor(executor, spawned)
      [] update = "/stop" -> stop_executor(executor)
      [] update = "restart" -> start_executor(stop_executor(executor), spawned)
      [] OTHER -> executor

\* the update made start_executor spawn a child
Spawns(update, executor, spawned) ==
    /\ spawned
    /\ \/ update = "/start" /\ executor = "none"
       \/ update = "restart"

\* the head of the loop: a new batch, and the updates of Telegram handled
\* (a polling error sleeps and starts the loop again, which changes nothing)
GetUpdates ==
    /\ supervisor.pc = "get_updates"
    /\ \E update \in Updates, spawned \in BOOLEAN :
          /\ supervisor' = [supervisor EXCEPT
                               !.pc = "process_outbox", !.batch = <<>>,
                               !.executor = HandleUpdate(update, @, spawned)]
          /\ announced' = (announced /\ ~Spawns(update, supervisor.executor, spawned))
    /\ UNCHANGED <<clock, event_rows, outbox, writers, forwarded, nonsupvars>>

\* process_outbox: every file of the outbox is read, pushed to the batch when
\* the read and the JSON parse succeed, and removed in either case
process_outbox(O) ==
    LET read == {f \in Facts : O[f] = "full"}
    IN  [pushed |-> read, outbox |-> [f \in Facts |-> "absent"]]

ProcessOutbox ==
    /\ supervisor.pc = "process_outbox"
    /\ LET r == process_outbox(outbox)
       IN  /\ supervisor' = [supervisor EXCEPT
                                !.pc = "poll_events",
                                !.batch = @ \o [k \in 1..Cardinality(r.pushed) |->
                                                  FactItem(SortedIds(r.pushed)[k])]]
           /\ forwarded' = Pushed({FactItem(f) : f \in r.pushed})
           /\ outbox' = r.outbox
    /\ UNCHANGED <<clock, event_rows, writers, announced, nonsupvars>>

\* the rows the query of poll_events may return: those after last_ts, the
\* first PollLimit of them by timestamp, rows of equal timestamp in any order
PollRows(rows, last_ts) ==
    LET pending == {r \in rows : r.timestamp > last_ts}
        n == IF Cardinality(pending) < PollLimit THEN Cardinality(pending) ELSE PollLimit
    IN  {S \in SUBSET pending :
            /\ Cardinality(S) = n
            /\ \A r \in S, q \in pending \ S : r.timestamp <= q.timestamp}

\* poll_events: nothing when the store cannot be opened; otherwise the rows
\* selected are pushed to the batch and last_event_ts becomes the largest
\* timestamp seen
PollEvents ==
    /\ supervisor.pc = "poll_events"
    /\ \/ /\ supervisor' = [supervisor EXCEPT !.pc = "flush_batch"]
          /\ UNCHANGED forwarded
       \/ \E S \in PollRows(event_rows, supervisor.last_event_ts) :
             LET ids == {r.id : r \in S}
             IN  /\ supervisor' = [supervisor EXCEPT
                       !.pc = "flush_batch",
                       !.last_event_ts = Largest({@} \cup {r.timestamp : r \in S}),
                       !.batch = @ \o [k \in 1..Cardinality(ids) |->
                                         EventItem(SortedIds(ids)[k])]]
                 /\ forwarded' = Pushed({EventItem(id) : id \in ids})
    /\ UNCHANGED <<clock, event_rows, outbox, writers, announced, nonsupvars>>

\* flush_batch: the batch is summarised, sent and gone
FlushBatch ==
    /\ supervisor.pc = "flush_batch"
    /\ supervisor' = [supervisor EXCEPT !.pc = "monitor_executor", !.batch = <<>>]
    /\ UNCHANGED <<clock, event_rows, outbox, writers, forwarded, announced, nonsupvars>>

\* what try_wait may answer for the child held
TryWait(executor) == {executor, "error"}

\* monitor_executor: a child that has exited is dropped and, with auto_heal,
\* the restart is announced, five seconds pass and a line is printed; a child
\* whose status cannot be read is dropped
monitor_executor(executor, auto_heal, status) ==
    CASE executor = "none" -> [executor |-> "none", notified |-> FALSE]
      [] status = "running" -> [executor |-> "running", notified |-> FALSE]
      [] status = "exited" -> [executor |-> "none", notified |-> auto_heal]
      [] OTHER -> [executor |-> "none", notified |-> FALSE]

MonitorExecutor ==
    /\ supervisor.pc = "monitor_executor"
    /\ \E status \in TryWait(supervisor.executor) :
          LET m == monitor_executor(supervisor.executor, supervisor.auto_heal, status)
          IN  /\ supervisor' = [supervisor EXCEPT !.pc = "sleep", !.executor = m.executor]
              /\ announced' = (announced \/ m.notified)
    /\ UNCHANGED <<clock, event_rows, outbox, writers, forwarded, nonsupvars>>

\* the five seconds at the end of the loop
Sleep ==
    /\ supervisor.pc = "sleep"
    /\ supervisor' = [supervisor EXCEPT !.pc = "get_updates"]
    /\ UNCHANGED <<clock, event_rows, outbox, writers, forwarded, announced, nonsupvars>>

\* the executor process ends by itself
ExecutorExit ==
    /\ supervisor.executor = "running"
    /\ supervisor' = [supervisor EXCEPT !.executor = "exited"]
    /\ UNCHANGED <<clock, event_rows, outbox, writers, forwarded, announced, nonsupvars>>

\* a millisecond passes
Millisecond ==
    /\ clock < MaxClock
    /\ clock' = clock + 1
    /\ UNCHANGED <<supervisor, event_rows, outbox, writers, forwarded, announced, nonsupvars>>

\* record_event: a row with a new id and the time of the call
RecordEvent ==
    /\ Cardinality(event_rows) < MaxEvents
    /\ event_rows' = event_rows \cup
                        {[id |-> Cardinality(event_rows) + 1, timestamp |-> clock]}
    /\ UNCHANGED <<supervisor, clock, outbox, writers, forwarded, announced, nonsupvars>>

\* the fact command, first half of fs::write: the file is created, empty
FactCreate(f) ==
    /\ writers[f] = "idle"
    /\ \A g \in Facts : g < f => writers[g] # "idle"
    /\ writers' = [writers EXCEPT ![f] = "created"]
    /\ outbox' = [outbox EXCEPT ![f] = "empty"]
    /\ UNCHANGED <<supervisor, clock, event_rows, forwarded, announced, nonsupvars>>

\* the fact command, second half of fs::write: the fact is written through the
\* open handle, into the file if it is still in the outbox
FactWrite(f) ==
    /\ writers[f] = "created"
    /\ writers' = [writers EXCEPT ![f] = "done"]
    /\ outbox' = [outbox EXCEPT ![f] = IF @ = "absent" THEN "absent" ELSE "full"]
    /\ UNCHANGED <<supervisor, clock, event_rows, forwarded, announced, nonsupvars>>

SupervisorStep ==
    \/ GetUpdates
    \/ ProcessOutbox
    \/ PollEvents
    \/ FlushBatch
    \/ MonitorExecutor
    \/ Sleep

SupervisorNext ==
    \/ SupervisorStep
    \/ ExecutorExit
    \/ Millisecond
    \/ RecordEvent
    \/ \E f \in Facts : FactCreate(f)
    \/ \E f \in Facts : FactWrite(f)

\* the supervisor, its executor, the event log and the fact commands
SpecSupervisor == Init /\ [][SupervisorNext]_vars

\* the supervisor's loop keeps running
SpecSupervisorFair == SpecSupervisor /\ WF_vars(SupervisorStep)

(***************************************************************************)
(* Overlay properties                                                      *)
(***************************************************************************)
IsWriteOp(l) == l.op \in {"write", "exec_write"}

WritesOnly == ~hist.committed /\ ~hist.deleted /\ ~hist.rolledback

\* what a read of the relative path rel returned when the overlay was created
BaseRead0(rel) == FsRead(Join(base_dir, rel), InitFiles, InitDirs)

\* C5: with overlay writes only and no commit, a read through the overlay
\* returns the last content written to that file (else the base content,
\* else an error) and every base file keeps the content it had when the
\* overlay was created.
C5_OverlayShadowsBase ==
    WritesOnly =>
        /\ BaseView(files) = BaseView(InitFiles)
        /\ (last.op = "read" /\ get_relative_path(last.path).ok) =>
               LET rel == get_relative_path(last.path).rel IN
               IF rel \in DOMAIN lastWrite
               THEN last.ok /\ last.val = lastWrite[rel]
               ELSE IF BaseRead0(rel).ok
               THEN last.ok /\ last.val = BaseRead0(rel).val
               ELSE ~last.ok

\* C6: after a successful commit that follows overlay writes only, every
\* file stored below overlay_dir, at any depth, is found at the same relative
\* path below base_dir with the content the overlay holds for it, and every
\* path an overlay write accepted reads in the base as the content last
\* written to it.
C6_CommitCopiesWrites ==
    (last.op = "commit" /\ last.ok /\ ~hist.deleted /\ ~hist.rolledback) =>
        /\ \A rel \in OverlayRels(files) :
               /\ Join(base_dir, rel) \in DOMAIN files
               /\ files[Join(base_dir, rel)] = files[Join(overlay_dir, rel)]
        /\ \A rel \in DOMAIN lastWrite :
               /\ FsRead(Join(base_dir, rel), files, dirs).ok
               /\ FsRead(Join(base_dir, rel), files, dirs).val = lastWrite[rel]

\* C7: a rollback succeeds, leaves no overlay directory and (no commit having
\* happened) a base identical to the one the overlay was created on; a
\* rollback without an overlay directory changes nothing.
C7_RollbackRestoresBase ==
    [][(ops' = ops + 1 /\ last'.op = "rollback") =>
          /\ last'.ok
          /\ ~PathExists(overlay_dir, files', dirs')
          /\ (~hist'.committed => BaseView(files') = BaseView(InitFiles))
          /\ (~PathExists(overlay_dir, files, dirs) =>
                  files' = files /\ dirs' = dirs)]_vars

\* C8: every accepted write lands below overlay_dir, at the relative path of
\* its target below base_dir, and changes no file outside overlay_dir.
C8_WritesStayInOverlay ==
    [][(ops' = ops + 1 /\ IsWriteOp(last') /\ last'.ok) =>
          LET rel == IF last'.path.abs
                     THEN StripPrefix(base_dir, last'.path.comps)
                     ELSE last'.path.comps IN
          /\ last'.target = Join(overlay_dir, rel)
          /\ \A q \in DOMAIN files' :
                 ~IsPrefix(overlay_dir, q) => q \in DOMAIN files /\ files'[q] = files[q]]_vars

\* C9: a read, write or delete of an absolute path that is not below
\* base_dir fails with the out-of-workspace error and leaves every file and
\* directory as it was.
C9_OutsideRefused ==
    [][(/\ ops' = ops + 1
        /\ last'.op \in {"read", "write", "exec_write", "delete"}
        /\ last'.path.abs
        /\ ~IsPrefix(base_dir, last'.path.comps)) =>
          /\ ~last'.ok
          /\ last'.err = "outside"
          /\ files' = files
          /\ dirs' = dirs]_vars

C9_Witness ==
    /\ last.op = "write"
    /\ last.path = Abs(<<"etc", "a.txt">>)
    /\ last.err = "outside"
    /\ OverlayRels(files) # {}


(***************************************************************************)
(* Properties of the event loop (src/core/loop.rs)                         *)
(***************************************************************************)
\* a selection of cortex_loop hands an impulse to the for loop
Selected == pc \in {"select", "poll_bg"} /\ pc' = "for"

\* C1: when a selection begins with the priority lane non-empty it takes the
\* head of the priority lane and leaves the background lane alone, however
\* early the background impulses were sent; a background impulse is taken
\* only when every priority impulse still waiting was sent after the
\* selection began.
C1_PriorityFirst ==
    [][Selected =>
          /\ (pc = "select" /\ priority # <<>>) =>
                 /\ impulse' = [imp |-> Head(priority), lane |-> "FAST"]
                 /\ priority' = Tail(priority)
                 /\ background' = background
          /\ impulse'.lane = "SLOW" =>
                 /\ background # <<>>
                 /\ impulse'.imp = Head(background)
                 /\ \A i \in 1..Len(priority) : priority[i].seq > selected_at]_vars

\* a priority impulse is being handled while a background impulse that was
\* sent before it still waits
C1_Witness ==
    /\ pc = "for"
    /\ impulse.lane = "FAST"
    /\ background # <<>>
    /\ Head(background).seq < impulse.imp.seq

(***************************************************************************)
(* Properties of the session step (src/core/agent.rs)                      *)
(***************************************************************************)
\* the depth the store holds for a session when its step begins
PersistedDepth(sid) == IF sid \in DOMAIN sessions THEN sessions[sid].depth ELSE 0

\* the number of messages of a session when its step begins: a new session
\* has its first message, an observed one has the observation appended
MessagesBefore(sid) ==
    IF sid \in DOMAIN sessions
    THEN Len(sessions[sid].messages) + (IF directive.type_name = "observe" THEN 1 ELSE 0)
    ELSE 1

C4_TerminalNotStepped ==
    [][(/\ pc = "dispatch"
        /\ directive.type_name = "think"
        /\ directive.payload.session_id \in DOMAIN sessions
        /\ StatusFromStored(sessions[directive.payload.session_id].status)[1]
               \in {"Completed", "Error"})
          => (llm_calls' = llm_calls /\ sessions' = sessions)]_vars

(***************************************************************************)
(* Properties of the interpreter (src/core/interpreter.rs)                 *)
(***************************************************************************)
\* the events a dispatch added to the log
Added == SubSeq(event_log', Len(event_log) + 1, Len(event_log'))

Queued(n) ==
    \/ \E i \in 1..Len(priority) : priority[i].seq = n
    \/ \E i \in 1..Len(background) : background[i].seq = n

\* the loop has dispatched every directive of the impulse sent as the n-th
Handled(n) == pc = "for" /\ directives = <<>> /\ impulse.imp.seq = n

\* the loop has left through the shutdown check
ShutDown == pc = "done" /\ should_shutdown

\* the dispatch that just returned failed and its ERROR event is the last
\* event of the log
Failed ==
    /\ pc = "for"
    /\ ~result.ok
    /\ event_log # <<>>
    /\ event_log[Len(event_log)].op = ErrorOp(directive.type_name)

HasShutdown ==
    /\ impulse.lane # None
    /\ \E i \in 1..Len(route_impulse(impulse.imp)) :
           route_impulse(impulse.imp)[i].type_name = "shutdown"

\* C12: the loop handling an impulse whose list holds a shutdown directive
\* dispatches the whole list and then exits; after the exit nothing is taken
\* from a lane and nothing is dispatched, whatever still waits there.
C12_ShutdownExits ==
    /\ [][(pc = "for" /\ pc' = "done") =>
              /\ HasShutdown
              /\ directives = <<>>
              /\ event_log # <<>>
              /\ LET routed == route_impulse(impulse.imp) IN
                 event_log[Len(event_log)] =
                     Event(ExecOp(routed[Len(routed)].type_name),
                           routed[Len(routed)].payload)]_vars
    /\ [][pc = "done" =>
              UNCHANGED <<pc, impulse, directive, event_log, priority, background>>]_vars
    /\ (pc = "for" /\ HasShutdown) ~> ShutDown

\* the loop has exited on a shutdown while impulses still wait on a lane
C12_Witness ==
    /\ ShutDown
    /\ priority # <<>> \/ background # <<>>
    /\ event_log[Len(event_log)].op = ExecOp("shutdown")


(***************************************************************************)
(* Parser properties                                                       *)
(***************************************************************************)
IsFence(t) == t.j \in {"F", "FJ"}

\* a fenced block of the response holds JSON text of at least one action
FencedActions(resp) ==
    \E i \in 1..Len(resp) :
        /\ i + 2 <= Len(resp)
        /\ IsFence(resp[i])
        /\ IsJson(resp[i + 1]) /\ resp[i + 1].acts # <<>>
        /\ IsFence(resp[i + 2])

\* the whole response is JSON text of at least one action
WholeActions(resp) == Len(resp) = 1 /\ IsJson(resp[1]) /\ resp[1].acts # <<>>

\* C13: parse_action succeeds on every response with a list of at least one
\* action, and when neither a fenced block nor the whole response
\* deserializes to at least one action that list is exactly the Answer
\* holding the whole response.
C13_ParseTotal ==
    Returned("parse_action") =>
        /\ call.ret.ok
        /\ call.ret.actions # <<>>
        /\ (~FencedActions(call.arg) /\ ~WholeActions(call.arg)
              => call.ret.actions = <<Answer(call.arg)>>)

\* C14: parse_action applied to a response that holds, between prose, one
\* ```json block with the JSON array of a list of actions (or the JSON object
\* of its one action) returns exactly those actions in their order.
C14_RoundTrip ==
    Returned("render") => call.ret = [ok |-> TRUE, actions |-> call.arg.actions]

(***************************************************************************)
(* Ingestion properties                                                    *)
(***************************************************************************)
\* the hash recorded for the path is the hash of the content the file has
InSync(path) ==
    /\ PathIsFile(Physical(path), files, dirs)
    /\ path \in DOMAIN sync_log
    /\ sync_log[path] = Hash(FsRead(Physical(path), files, dirs).val)

\* the fs_batch directives interpreted so far
Ingestions == SelectSeq(event_log, LAMBDA e : e.op = ExecOp("fs_batch"))

NodeWrites(log) == SelectSeq(log, LAMBDA e : e.op = <<"batch_add_nodes">>)

Ascending(q) == \A i \in 1..(Len(q) - 1) : q[i].seq < q[i + 1].seq

\* a lane changes by a send that appends the impulse sent to a lane that is
\* not full, or by the loop receiving its oldest impulse
LaneStep(q, qn, lane) ==
    qn # q =>
        \/ /\ sent' = sent + 1
           /\ Len(q) < Capacity(lane)
           /\ Len(qn) = Len(q) + 1
           /\ qn = Append(q, qn[Len(qn)])
           /\ qn[Len(qn)].seq = sent'
           /\ impulse' = impulse
        \/ /\ sent' = sent
           /\ q # <<>>
           /\ qn = Tail(q)
           /\ impulse' = [imp |-> Head(q), lane |-> lane]
           /\ directives' = route_impulse(Head(q))

\* C16: neither lane ever holds more impulses than its capacity, every
\* impulse sent is appended to its lane (a send to a full lane does not
\* happen before the loop has freed a slot), and the loop receives from a
\* lane its oldest impulse, each once, in the order of the sends.
C16_LanesLossless ==
    /\ [](Len(priority) <= PriorityCapacity /\ Len(background) <= BackgroundCapacity)
    /\ [](Ascending(priority) /\ Ascending(background))
    /\ [][/\ LaneStep(priority, priority', "FAST")
          /\ LaneStep(background, background', "SLOW")
          /\ sent' # sent =>
                 Len(priority') + Len(background') = Len(priority) + Len(background) + 1
          /\ impulse' # impulse => priority' # priority \/ background' # background]_vars

\* the watcher has filled the background lane, waited, and filled the slot
\* the loop freed
C16_Witness ==
    /\ Len(background) = BackgroundCapacity
    /\ sent = BackgroundCapacity + 1
    /\ impulse = [imp |-> [Impulse("Error", 0, "e", <<>>) EXCEPT !.seq = 1],
                  lane |-> "SLOW"]

(***************************************************************************)
(* Event log properties                                                    *)
(***************************************************************************)
\* C17: the event log only grows: every record keeps its place and its
\* content, recording the intent of a directive adds exactly one record, a
\* dispatch adds one record per node write and one more when it fails, and
\* no other step touches the log.
C17_LogAppendOnly ==
    [][/\ Len(event_log') >= Len(event_log)
       /\ \A i \in 1..Len(event_log) : event_log'[i] = event_log[i]
       /\ (pc = "for" /\ pc' = "dispatch") => Len(event_log') = Len(event_log) + 1
       /\ (pc = "dispatch" /\ pc' = "for") =>
              Len(event_log') = Len(event_log) + Len(NodeWrites(Added))
                                    + (IF result'.ok THEN 0 ELSE 1)
       /\ (~(pc = "for" /\ pc' = "dispatch") /\ ~(pc = "dispatch" /\ pc' = "for"))
              => event_log' = event_log]_vars

\* the log holds the records of an ingestion that wrote nodes and of a
\* directive that failed after it
C17_Witness ==
    /\ pc = "for"
    /\ ~result.ok
    /\ Len(event_log) = 4
    /\ event_log[1].op = ExecOp("fs_batch")
    /\ event_log[2].op = <<"batch_add_nodes">>
    /\ event_log[4].op = ErrorOp(directive.type_name)

(***************************************************************************)
(* Session store properties                                                *)
(***************************************************************************)
\* C18: get_session of the id of a session that create_session or
\* update_session has just stored finds it and returns its messages in
\* their order, its depth and its status, whatever the text of an Error.
C18_StoreRoundTrip ==
    Returned("store") => call.ret.found /\ call.ret.session = call.arg.session

(***************************************************************************)
(* Routing properties                                                      *)
(***************************************************************************)
\* C19: every directive routed from an impulse has a type the bus holds a
\* handler for, and no dispatch fails for want of a handler.
C19_RoutedHaveHandlers ==
    /\ \A i \in 1..Len(directives) : directives[i].type_name \in register_core_handlers
    /\ pc = "dispatch" => directive.type_name \in register_core_handlers
    /\ result.err # "no handler"

(***************************************************************************)
(* Properties of a step whose LLM call fails                               *)
(***************************************************************************)
\* the dispatch called the LLM for the session and the call failed
FailedStep(sid) ==
    /\ pc = "dispatch" /\ pc' = "for"
    /\ llm_calls'[sid] = llm_calls[sid] + 1
    /\ ok_steps' = ok_steps

\* C20: when the LLM call of a step fails the stored session is the one the
\* step began with (the stored one for a think, the stored one with the
\* observation appended for an observe, the new one for an initiate): no
\* message of the step, the same depth, the same status; and no action has
\* touched a file.
C20_FailedStepStoresNothing ==
    [][\A sid \in SessionIds :
          FailedStep(sid) =>
              /\ files' = files /\ dirs' = dirs
              /\ get_session(sessions', sid).found
              /\ get_session(sessions', sid).session =
                     CASE directive.type_name = "think" -> get_session(sessions, sid).session
                       [] directive.type_name = "observe" ->
                            with_message(get_session(sessions, sid).session,
                                         Msg("text", directive.payload.text, 0))
                       [] OTHER ->
                            AgentSession_new(sid, Msg("text", directive.payload.text, 0))
              /\ directive.type_name = "think" => sessions' = sessions]_vars

\* a think whose LLM call failed on a session that had made one step
C20_Witness ==
    /\ pc = "for"
    /\ directive.type_name = "think"
    /\ 1 \in DOMAIN sessions
    /\ llm_calls[1] = 2
    /\ ok_steps[1] = 1
    /\ sessions[1].depth = 1

(***************************************************************************)
(* Ingestion pass properties                                               *)
(***************************************************************************)
\* the step is a call of ingest_batch
PassStep == call'.arg.pass # call.arg.pass

\* the path is in the batch of the pass
InBatch(path) == \E i \in DOMAIN call'.arg.paths : call'.arg.paths[i] = path

\* C21: node ids are path-aware: the nodes extracted from two different
\* files never have the same id, so an ingestion pass leaves every stored node
\* that was extracted from a file outside its batch as it is.
C21_IdsPathAware ==
    [][PassStep =>
          \A id \in DOMAIN nodes : ~InBatch(nodes[id].path) => nodes'[id] = nodes[id]]_vars

(***************************************************************************)
(* Sequencing properties                                                   *)
(***************************************************************************)
\* interpret has been called for the directive and has not returned
HandlerRunning == pc = "dispatch"

\* C22: the loop never runs two directive handlers concurrently: while a
\* handler is running the loop takes no impulse from a lane and no further
\* directive, and the store, the tree and the sessions change only when the
\* running handler returns, so two session steps never interleave.
C22_OneHandlerAtATime ==
    [][/\ HandlerRunning =>
            /\ pc' \in {"dispatch", "for"}
            /\ impulse' = impulse
            /\ directive' = directive
            /\ directives' = directives
            /\ Len(priority') >= Len(priority)
            /\ Len(background') >= Len(background)
       /\ (\/ sessions' # sessions \/ llm_calls' # llm_calls \/ nodes' # nodes
           \/ sync_log' # sync_log \/ files' # files)
            => HandlerRunning /\ pc' = "for"]_vars

\* a session step is running while an impulse waits on the priority lane
C22_Witness ==
    /\ HandlerRunning
    /\ directive.type_name \in {"initiate_session", "think", "observe"}
    /\ priority # <<>>
    /\ llm_calls[1] > 0

(***************************************************************************)
(* Session message properties                                              *)
(***************************************************************************)
\* C23: the stored messages of a session are append-only: whatever
\* initiate_session, think or observe directive is interpreted, every stored
\* session stays stored and the list of its messages before the step is a
\* prefix of the list after it.
C23_MessagesAppendOnly ==
    [][\A sid \in DOMAIN sessions :
          /\ sid \in DOMAIN sessions'
          /\ IsPrefix(sessions[sid].messages, sessions'[sid].messages)]_vars

\* an observe directive has just extended a list that two steps had extended
C23_Witness ==
    /\ pc = "for"
    /\ directive.type_name = "observe"
    /\ 1 \in DOMAIN sessions
    /\ ok_steps[1] >= 2
    /\ \E i \in 3..Len(sessions[1].messages) : sessions[1].messages[i].k = "text"

(***************************************************************************)
(* Session step properties                                                 *)
(***************************************************************************)
\* the response whose text the message of a step holds
ResponseOf(msg) == CHOOSE r \in Responses : r.name = msg.v

\* the observations the execution of an action may append
ObservationsOf(tag) ==
    CASE tag = "WriteFile" -> {"write", "write_error"}
      [] tag = "ExecShell" -> {"shell", "shell_error"}
      [] tag = "CallTool" -> {"tool", "tool_error"}
      [] tag = "CommitOverlay" -> {"commit", "commit_error"}
      [] tag = "QueryMemory" -> {"not_implemented"}
      [] OTHER -> {"skill", "skill_error", "datalog", "datalog_error", "not_implemented"}

\* the step of the session in which the LLM answered
SuccessfulStep(sid) == ok_steps'[sid] = ok_steps[sid] + 1

\* C24: in a successful step every parsed action is executed in list order,
\* also after an earlier one failed: the messages stored after the response
\* of the step are exactly one observation for every action other than
\* Answer (WriteFile, ExecShell, CallTool, CommitOverlay, QueryMemory,
\* UseSkill, QueryDatalog), in the order of the actions.
C24_OneObservationPerAction ==
    [][\A sid \in DOMAIN sessions' : SuccessfulStep(sid) =>
          LET msgs == sessions'[sid].messages
              k == CHOOSE i \in DOMAIN msgs :
                      msgs[i].k = "sly" /\ \A j \in (i + 1)..Len(msgs) : msgs[j].k # "sly"
              parsed == parse_action(ResponseOf(msgs[k]).body)
              acts == SelectSeq(parsed.actions, LAMBDA a : a.directive # "Answer") IN
          parsed.ok =>
              /\ Len(msgs) = k + Len(acts)
              /\ \A i \in DOMAIN acts :
                    /\ msgs[k + i].k = "obs"
                    /\ msgs[k + i].v \in ObservationsOf(acts[i].directive)]_vars

\* the actions parsed from the response of the step that has just been stored
ActionsOfStep(sid) ==
    LET msgs == sessions'[sid].messages
        k == CHOOSE i \in DOMAIN msgs :
                msgs[i].k = "sly" /\ \A j \in (i + 1)..Len(msgs) : msgs[j].k # "sly" IN
    parse_action(ResponseOf(msgs[k]).body).actions

\* the step has copied the overlay to the workspace
CommitSucceeded ==
    \E ord \in Orders(NameUniverse) :
        LET r == commit(files, dirs, ord) IN
        r.ok /\ files' = r.files /\ dirs' = r.dirs

\* C25: after a step the status of the session is Completed exactly when it
\* was Completed before the step, or the actions of the step included an
\* Answer, or they included a CommitOverlay whose commit succeeded; a failed
\* commit does not set Completed.
C25_CompletedExactlyWhen ==
    [][\A sid \in DOMAIN sessions' : SuccessfulStep(sid) =>
          LET acts == ActionsOfStep(sid)
              before == IF sid \in DOMAIN sessions
                        THEN StatusFromStored(sessions[sid].status) ELSE <<"Idle">> IN
          (StatusFromStored(sessions'[sid].status) = <<"Completed">>)
              <=> \/ before = <<"Completed">>
                  \/ \E i \in DOMAIN acts : acts[i].directive = "Answer"
                  \/ /\ \E i \in DOMAIN acts : acts[i].directive = "CommitOverlay"
                     /\ CommitSucceeded]_vars

\* a step whose commit failed has left the session Idle
C25_Witness ==
    /\ pc = "for"
    /\ 1 \in DOMAIN sessions
    /\ sessions[1].messages[Len(sessions[1].messages)].v = "commit_error"
    /\ StatusFromStored(sessions[1].status) = <<"Idle">>

\* a successful step has left the session non-terminal below the cap
Resumable(sid) ==
    /\ pc = "for"
    /\ directives = <<>>
    /\ directive.type_name \in {"initiate_session", "think", "observe"}
    /\ sid \in DOMAIN sessions
    /\ ok_steps[sid] > 0
    /\ sessions[sid].messages[Len(sessions[sid].messages)].k \in {"sly", "obs"}
    /\ StatusFromStored(sessions[sid].status)[1] \notin {"Completed", "Error"}
    /\ sessions[sid].depth < max_autonomous_loops

ThinkDispatched(sid) ==
    /\ pc = "dispatch"
    /\ directive.type_name = "think"
    /\ directive.payload.session_id = sid

\* C26: after a successful step has left the session non-terminal with a
\* depth below max_autonomous_loops, and with nothing waiting on the lanes,
\* a think directive for the session is eventually dispatched unless a
\* producer sends a further impulse first.
C26_ThinkFollows ==
    (Resumable(1) /\ priority = <<>> /\ background = <<>>)
        ~> (ThinkDispatched(1) \/ priority # <<>> \/ background # <<>>)

(***************************************************************************)
(* Cancellation properties                                                 *)
(***************************************************************************)
\* a SystemInterrupt waits on the priority lane
InterruptQueued ==
    \E i \in DOMAIN priority : priority[i].kind = "SystemInterrupt"

\* the interrupt is taken as the head of the priority lane, after the
\* impulses queued ahead of it
InterruptInTurn ==
    [][(Selected /\ impulse'.imp.kind = "SystemInterrupt") =>
           /\ priority # <<>>
           /\ impulse'.imp = Head(priority)]_vars

\* C27: under fair scheduling and terminating handlers, once a
\* SystemInterrupt is enqueued on the priority lane the loop eventually exits;
\* the interrupt is taken in its turn on the priority lane, and a background
\* impulse is taken before it only by a selection that had begun before the
\* interrupt was enqueued, however many background impulses wait.
C27_InterruptExitsAfterSelection ==
    /\ InterruptQueued ~> (pc = "done")
    /\ InterruptInTurn
    /\ [][(Selected /\ pc = "select" /\ InterruptQueued) => impulse'.lane = "FAST"]_vars
    /\ [][(Selected /\ impulse'.lane = "SLOW") =>
              \A i \in DOMAIN priority :
                  priority[i].kind = "SystemInterrupt" => priority[i].seq > selected_at]_vars

\* the loop has exited on an interrupt that was sent after a background
\* impulse which still waits
C27_Witness ==
    /\ ShutDown
    /\ impulse.imp.kind = "SystemInterrupt"
    /\ background # <<>>
    /\ Head(background).seq < impulse.imp.seq

\* C27: under fair scheduling and terminating handlers, once a
\* SystemInterrupt is enqueued on the priority lane the loop eventually exits;
\* the interrupt is taken as the head of the priority lane, after the impulses
\* queued ahead of it, and while it waits no impulse is taken from the
\* background lane, however many wait there.
C27_InterruptExits ==
    /\ InterruptQueued ~> (pc = "done")
    /\ InterruptInTurn
    /\ [][(Selected /\ InterruptQueued) => impulse'.lane = "FAST"]_vars

\* the files of the batch of the pass that are scanned and whose recorded hash
\* is not the hash of their content, before the pass
ChangedFiles ==
    SelectSeq(ScanAll(call'.arg.paths, files, dirs), LAMBDA f : should_reindex(sync_log, f))

\* C28: an ingestion pass that succeeds over a batch with at least one
\* changed file performs exactly one batched node write, whose one
\* batch_add_nodes event covers the nodes of all the changed files, and
\* records the hash of every changed file; in particular a pass over a single
\* modified file performs exactly one batched node write.
C28_OneBatchedWrite ==
    [][(PassStep /\ call'.ret /\ ChangedFiles # <<>>) =>
          /\ Len(NodeWrites(Added)) = 1
          /\ \A i \in DOMAIN ChangedFiles :
                /\ \E j \in DOMAIN NodeWrites(Added)[1].data.paths :
                       NodeWrites(Added)[1].data.paths[j] = ChangedFiles[i].path
                /\ ChangedFiles[i].path \in DOMAIN sync_log'
                /\ sync_log'[ChangedFiles[i].path] = ChangedFiles[i].hash]_vars

\* the pass has written the nodes extracted from the file
Written(f) ==
    \/ extract_symbols(f) = <<>>
    \/ /\ \E i \in DOMAIN NodeWrites(Added) :
             /\ NodeWrites(Added)[i].data.count = Len(extract_symbols(f))
             /\ \A j \in DOMAIN NodeWrites(Added)[i].data.paths :
                    NodeWrites(Added)[i].data.paths[j] = f.path
       /\ \A i \in DOMAIN extract_symbols(f) : extract_symbols(f)[i].id \in DOMAIN nodes'

\* the hash recorded for the path, None when there is none
Recorded(SL, path) == IF path \in DOMAIN SL THEN SL[path] ELSE <<None>>

\* C29: the sync log comes to map a path to a hash only in a pass that has
\* written the nodes extracted from the content with that hash: the row is
\* updated after the node write and not when the write fails, so a file whose
\* ingestion failed is still a changed file for the next pass.
C29_SyncAfterWrite ==
    [][PassStep =>
          /\ \A path \in DOMAIN sync_log' :
                Recorded(sync_log', path) # Recorded(sync_log, path) =>
                    \E i \in DOMAIN ChangedFiles :
                        /\ ChangedFiles[i].path = path
                        /\ sync_log'[path] = ChangedFiles[i].hash
                        /\ Written(ChangedFiles[i])
          /\ DOMAIN sync_log \subseteq DOMAIN sync_log'
          /\ \A i \in DOMAIN ChangedFiles :
                ~Written(ChangedFiles[i]) => should_reindex(sync_log', ChangedFiles[i])]_vars

\* the node write of the second changed file failed: the first file is
\* recorded, the second is not
C29_Witness ==
    /\ call.done
    /\ ~call.ret
    /\ call.arg.embed_ok = <<TRUE, FALSE>>
    /\ Cardinality(DOMAIN sync_log) = 1
    /\ Len(NodeWrites(event_log)) = 1

\* the embedding engine answers for the i-th changed file of the pass
EmbeddingAnswers(i) == i > Len(call'.arg.embed_ok) \/ call'.arg.embed_ok[i]

\* C30: when the processing of one file of a batch fails, that file is
\* skipped and the others are not: every changed file of the batch whose own
\* node write does not fail has its nodes written and its hash recorded by the
\* pass, whichever other file of the batch failed.
C30_FailureSkipsOneFile ==
    [][PassStep =>
          \A i \in DOMAIN ChangedFiles : EmbeddingAnswers(i) =>
              /\ Written(ChangedFiles[i])
              /\ ChangedFiles[i].path \in DOMAIN sync_log'
              /\ sync_log'[ChangedFiles[i].path] = ChangedFiles[i].hash]_vars

(***************************************************************************)
(* Tool server properties                                                  *)
(***************************************************************************)
\* main has started server s and is through with its handshake
HandshakeOver(s) ==
    /\ pipes[s].tried
    /\ tasks["main"].server = s => tasks["main"].pc \in {"boot_next", "done"}

\* the line initialize read from s is a response without an error field
AnsweredWithoutError(s) ==
    /\ pipes[s].spawned
    /\ ~pipes[s].timed_out
    /\ pipes[s].read.some
    /\ pipes[s].read.line.json
    /\ ~pipes[s].read.line.error

\* C31 (as stated): a tool server is in the registry if and only if its
\* process spawned and its initialize request received, within the timeout,
\* a response without an error field.
C31_RegisteredIffAnswered ==
    \A s \in Servers : HandshakeOver(s) => (s \in mcp_clients <=> AnsweredWithoutError(s))

\* C31 (amended): a tool server is in the registry if and only if its process
\* spawned and, before the timeout fired, the first line read from it was a
\* response with no error field and a result holding serverInfo and
\* capabilities, and the initialized notification was written to it.  A
\* server is registered only once its handshake is over, and when the startup
\* is over every configured server has been tried.
C31_RegisteredIffHandshake ==
    /\ \A s \in Servers :
          HandshakeOver(s) =>
             (s \in mcp_clients <=>
                 /\ AnsweredWithoutError(s)
                 /\ pipes[s].read.line.result
                 /\ {"serverInfo", "capabilities"} \subseteq pipes[s].read.line.keys
                 /\ pipes[s].initialized)
    /\ \A s \in mcp_clients : HandshakeOver(s)
    /\ tasks["main"].pc = "done" => \A s \in Servers : pipes[s].tried

\* the startup is over: one server timed out or answered with an error, and
\* the other is registered
C31_Witness ==
    /\ tasks["main"].pc = "done"
    /\ \E s \in Servers, f \in Servers :
          /\ s \in mcp_clients
          /\ f \notin mcp_clients
          /\ pipes[f].spawned
          /\ pipes[f].timed_out \/ (pipes[f].read.some /\ pipes[f].read.line.error)

\* the line task t read in its present call answers the request of that call
AnswersOwn(t) == tasks[t].got.line.answers = Answers(Method(tasks[t].fn), t)

\* two tasks are inside the same critical section of the transport of one server
Overlap(section) ==
    \E t \in Tasks, u \in Tasks :
       /\ t # u
       /\ tasks[t].pc = section
       /\ tasks[u].pc = section
       /\ tasks[t].server = tasks[u].server

\* C32: the transport serializes sends and serializes receives, and while at
\* most one request is in flight on a server and the server writes nothing
\* unasked, every call reads the response to its own request (there is no
\* correlation by id: see the witness for what happens otherwise).
C32_LockstepAnswersOwn ==
    /\ ~Overlap("send_write")
    /\ ~Overlap("recv_wait")
    /\ \A t \in Callers :
          (tasks[t].got.some /\ pipes[tasks[t].server].lockstep) => AnswersOwn(t)

\* two calls were in flight on one server that wrote no notification, and a
\* caller has read the line that answers the request of the other caller
C32_Witness ==
    \E t \in Callers, u \in Callers :
       /\ t # u
       /\ tasks[t].got.some
       /\ tasks[t].got.line.answers.from = u
       /\ pipes[tasks[t].server].notifications = 0

\* C33: no handler holds the mutex of the tool-client map while it is
\* suspended on the exchange with a tool server.
C33_NoLockAcrossExchange ==
    \A t \in Callers :
       tasks[t].pc \in {"send_lock", "send_write", "recv_lock", "recv_wait"}
          => locks.clients # t

\* the overlay file at rel is in the base of the files G with the content
\* the files F hold for it in the overlay
CopiedToBase(rel, F, G) ==
    /\ Join(base_dir, rel) \in DOMAIN G
    /\ G[Join(base_dir, rel)] = F[Join(overlay_dir, rel)]

\* C34: a commit that reports success has copied every overlay file to the
\* base, so a commit during which a copy failed returns an error; the failed
\* commit undoes nothing: every base file either is as it was or holds the
\* content of the overlay file copied over it, and the overlay is untouched.
C34_FailedCopyIsReported ==
    [][(ops' = ops + 1 /\ last'.op = "commit") =>
          /\ last'.ok => \A rel \in OverlayRels(files) : CopiedToBase(rel, files, files')
          /\ \A q \in DOMAIN files :
                /\ q \in DOMAIN files'
                /\ IsPrefix(overlay_dir, q) => files'[q] = files[q]
                /\ IsPrefix(base_dir, q) =>
                      \/ files'[q] = files[q]
                      \/ /\ StripPrefix(base_dir, q) \in OverlayRels(files)
                         /\ CopiedToBase(StripPrefix(base_dir, q), files, files')]_vars

\* a commit has returned an error with one overlay file copied over the base
\* file and another overlay file not in the base: a partial commit
C34_Witness ==
    /\ last.op = "commit"
    /\ ~last.ok
    /\ \E rel \in OverlayRels(files), other \in OverlayRels(files) :
          /\ CopiedToBase(rel, files, files)
          /\ Join(base_dir, rel) \in DOMAIN InitFiles
          /\ files[Join(base_dir, rel)] # InitFiles[Join(base_dir, rel)]
          /\ ~CopiedToBase(other, files, files)

\* the impulse sent as the n-th waits on the background lane
QueuedBackground(n) == \E i \in 1..Len(background) : background[i].seq = n

\* C35: every impulse enqueued on the background lane is handled later (the
\* producers send finitely many priority impulses and the handlers return),
\* unless a shutdown directive ends the loop first.
C35_BackgroundHandled ==
    \A n \in 1..MaxImpulses : QueuedBackground(n) ~> (Handled(n) \/ ShutDown)

\* a background impulse sent first has been handled after the priority
\* impulse that was sent after it
C35_Witness ==
    /\ Handled(1)
    /\ impulse.lane = "SLOW"
    /\ sent = 2
    /\ priority = <<>>
    /\ Len(event_log) >= 3
    /\ event_log[1].op = ExecOp("error")
    /\ event_log[2].op = ErrorOp("error")

(***************************************************************************)
(* Properties of the observe directive                                     *)
(***************************************************************************)
\* the dispatch of an observe directive returns
ObserveStep == pc = "dispatch" /\ pc' = "for" /\ directive.type_name = "observe"

\* the stored messages of the session followed by the observation
Observed(sid) ==
    Append(sessions[sid].messages, Msg("text", directive.payload.text, 0))

\* C36: an observe directive for a session id that is not stored changes
\* nothing and does not invoke the LLM; for a stored session the stored
\* messages afterwards begin with the messages before followed by the
\* observation, every other session is as it was, and when the session is at
\* the depth cap the LLM is not invoked and the stored session is the old one
\* with that one message more.
C36_ObserveRecordsFirst ==
    [][ObserveStep =>
          \E sid \in {directive.payload.session_id} :
             IF sid \notin DOMAIN sessions
             THEN /\ sessions' = sessions
                  /\ llm_calls' = llm_calls
                  /\ files' = files /\ dirs' = dirs
             ELSE /\ DOMAIN sessions' = DOMAIN sessions
                  /\ \A o \in DOMAIN sessions \ {sid} : sessions'[o] = sessions[o]
                  /\ IsPrefix(Observed(sid), sessions'[sid].messages)
                  /\ sessions[sid].depth >= max_autonomous_loops =>
                        /\ llm_calls' = llm_calls
                        /\ sessions'[sid] = [sessions[sid] EXCEPT !.messages = Observed(sid)]
                  /\ llm_calls' = llm_calls => sessions'[sid].messages = Observed(sid)]_vars

\* an observation has been recorded for a session that had used all its
\* steps, without a call of the LLM
C36_Witness ==
    /\ pc = "for"
    /\ directive.type_name = "observe"
    /\ 1 \in DOMAIN sessions
    /\ sessions[1].depth = max_autonomous_loops
    /\ llm_calls[1] = max_autonomous_loops
    /\ sessions[1].messages[Len(sessions[1].messages)] = Msg("text", "o", 0)

\* the nodes stored with the path
NodesOfPath(N, path) == {N[id] : id \in {id \in DOMAIN N : N[id].path = path}}

\* C37: after a pass that has re-ingested a modified file (a changed file of
\* the batch that had been ingested before), the nodes stored with the path
\* of the file are exactly the nodes extracted from its content: no node of a
\* symbol that is no longer in the file remains.
C37_ReingestReplacesNodes ==
    [][(PassStep /\ call'.ret) =>
          \A i \in DOMAIN ChangedFiles :
             ChangedFiles[i].path \in DOMAIN sync_log =>
                /\ NodesOfPath(nodes', ChangedFiles[i].path) \subseteq
                       {extract_symbols(ChangedFiles[i])[j] :
                           j \in DOMAIN extract_symbols(ChangedFiles[i])}
                /\ \A j \in DOMAIN extract_symbols(ChangedFiles[i]) :
                       extract_symbols(ChangedFiles[i])[j]
                           \in NodesOfPath(nodes', ChangedFiles[i].path)]_vars

\* how often the supervisor has pushed the item to a batch
Forwards(item) == forwarded[item]

\* C38: every event appended to the log after the supervisor started is
\* forwarded by poll_events exactly once: none is pushed twice, and none is
\* left behind the high-water mark unforwarded (such an event can never be
\* selected again), also with more pending than the limit of a poll and with
\* events of the same millisecond as the mark.
C38_EventsForwardedOnce ==
    \A r \in event_rows :
       /\ Forwards(EventItem(r.id)) <= 1
       /\ r.timestamp <= supervisor.last_event_ts => Forwards(EventItem(r.id)) = 1

\* C39: every fact queued by the fact command is forwarded by process_outbox
\* exactly once, also when process_outbox runs while the file is being
\* written: no file leaves the outbox without its fact in a batch, and no
\* fact is pushed twice.
C39_FactsForwardedOnce ==
    \A f \in Facts :
       /\ Forwards(FactItem(f)) <= 1
       /\ (writers[f] # "idle" /\ outbox[f] = "absent") => Forwards(FactItem(f)) = 1

\* C40: with auto_heal on, once monitor_executor has found the executor
\* exited and announced the restart, the supervisor eventually starts a new
\* executor.
C40_AutoHealRestarts ==
    (announced /\ supervisor.auto_heal) ~> (supervisor.executor = "running")

=========================================================================
